---- MODULE Spec2Model ----
(***************************************************************************)
(* A model of the gLauncher launch pipeline: the account manager, the      *)
(* device-code polling loop, the library and asset download jobs, the rule *)
(* evaluator, the Fabric overlay, game-argument construction and the       *)
(* launch orchestrator.  Each subsystem has its own variables, its own     *)
(* initial predicate and its own specification; a specification leaves the *)
(* other subsystems' variables at their idle values.                       *)
(***************************************************************************)
EXTENDS Integers, Sequences, FiniteSets, TLC

VARIABLES
    data,       \* AccountManager.data: [accounts, active_uuid]        (manager.rs:15-24)
    store,      \* the keyring entry glauncher/accounts: NoEntry or a saved AccountsData
    ret,        \* the last account-manager operation and what it returned
    poll,       \* MicrosoftAuth::poll_for_token: ticket, loop position, clock, outcome
    libSha,     \* per library artifact: TRUE when artifact.sha1 is non-empty
    libDisk,    \* the shared libraries directory: what is at each artifact's path
    lm,         \* per launch: its LibraryManager::download_all run and later uses
    rules,      \* a library's rule list, the host, and should_include's answer
    fabric,     \* the vanilla and Fabric library lists and the merged list
    gargs,      \* a version's argument template and the argv build_game_args built
    run,        \* one launch_instance_async call: descriptor, cache, stage, child
    bu,         \* one buffer_unordered run of a download_all: jobs dispatched, in flight, finished
    java,       \* Java requirement of a launch: the instance's version string, the descriptor's java_version and the major the pipeline asks for
    dl,         \* one download of the pipeline: its kind, the response, the file at its path
    cond,       \* one rule list with features, the host, and the answer of each of the three rule consumers
    jargs,      \* a descriptor's JVM template, the instance's Java settings and the JVM argv built
    cp,         \* a library list, the game jar, the host, and the classpath build_classpath returned
    am,         \* the asset objects' sizes and files, and what the last asset operation did
    nat,        \* a library, the host, the natives classifier chosen for it and what extract_natives extracted
    inst,       \* the instance directories with their records, and the last instance operation with its in-memory instance and result
    fg,         \* a Forge overlay: the install profile's processors, the ones run with their exit statuses, the client jar and the version document
    ej,         \* the managed and system Java runtimes and the calls of ensure_java
    tm,         \* two account managers over one secret store, and the account ids their successful operations added and did not remove
    gui         \* the graphical shell: its loading flag, login state, channels of the background tasks and the current async_receiver

acctVars == <<data, store, ret>>
pollVars == <<poll>>
libVars == <<libSha, libDisk, lm>>
ruleVars == <<rules>>
fabricVars == <<fabric>>
argVars == <<gargs>>
runVars == <<run>>
guiVars == <<gui>>
twoVars == <<tm>>
ensureVars == <<ej>>
forgeVars == <<fg>>
instVars == <<inst>>
nativeVars == <<nat>>
assetVars == <<am>>
cpVars == <<cp>>
jvmVars == <<jargs>>
condVars == <<cond>>
dlVars == <<dl>>
javaVars == <<java>>
harnessVars == <<bu>>

vars == <<data, store, ret, poll, libSha, libDisk, lm, rules, fabric, gargs, run, bu, java, dl, cond, jargs, cp, am, nat, inst, fg, ej, tm, gui>>

\* Option::None of active_uuid; profile ids are 1..NumIds.
None == 0
\* The keyring entry is a sequence: empty when there is no entry, else <<AccountsData>>.
NoEntry == <<>>

\* ------------------------------------------------------------------------
\* Bounds
\* ------------------------------------------------------------------------
\* Number of distinct Minecraft profiles (uuids) the servers can answer with.
NumIds == 2

Ids == 1..NumIds
\* The token pairs a login or refresh chain can return: an older and a newer one.
Gens == {"t1", "t2"}

\* ------------------------------------------------------------------------
\* Idle values: what a subsystem's variables hold in the specifications of
\* the other subsystems.
\* ------------------------------------------------------------------------
AcctIdle ==
    /\ data = [accounts |-> <<>>, active_uuid |-> None]
    /\ store = NoEntry
    /\ ret = [op |-> "new", result |-> "Ok"]

PollIdle ==
    poll = [pc |-> "idle", interval |-> 0, expires_in |-> 0, elapsed |-> 0,
            result |-> "none", last |-> "none", posts |-> 0, pending |-> 0,
            slow |-> 0, other |-> 0, sent |-> "", tokens |-> ""]

LibIdle ==
    /\ libSha = <<>>
    /\ libDisk = <<>>
    /\ lm = <<>>

RuleIdle == rules = <<>>

FabricIdle == fabric = <<>>

ArgIdle == gargs = <<>>

RunIdle == run = <<>>

HarnessIdle == bu = <<>>

JavaIdle == java = <<>>

DlIdle == dl = <<>>

CondIdle == cond = <<>>

JvmIdle == jargs = <<>>

CpIdle == cp = <<>>

AssetIdle == am = <<>>

NativeIdle == nat = <<>>

InstIdle == inst = <<>>

ForgeIdle == fg = <<>>

EnsureIdle == ej = <<>>

TwoIdle == tm = <<>>

GuiIdle == gui = <<>>

AcctOnly == UNCHANGED <<pollVars, libVars, ruleVars, fabricVars, argVars, runVars, harnessVars, javaVars, dlVars, condVars, jvmVars, cpVars, assetVars, nativeVars, instVars, forgeVars, ensureVars, twoVars, guiVars>>
PollOnly == UNCHANGED <<acctVars, libVars, ruleVars, fabricVars, argVars, runVars, harnessVars, javaVars, dlVars, condVars, jvmVars, cpVars, assetVars, nativeVars, instVars, forgeVars, ensureVars, twoVars, guiVars>>
LibOnly == UNCHANGED <<acctVars, pollVars, ruleVars, fabricVars, argVars, runVars, harnessVars, javaVars, dlVars, condVars, jvmVars, cpVars, assetVars, nativeVars, instVars, forgeVars, ensureVars, twoVars, guiVars>>
RuleOnly == UNCHANGED <<acctVars, pollVars, libVars, fabricVars, argVars, runVars, harnessVars, javaVars, dlVars, condVars, jvmVars, cpVars, assetVars, nativeVars, instVars, forgeVars, ensureVars, twoVars, guiVars>>
FabricOnly == UNCHANGED <<acctVars, pollVars, libVars, ruleVars, argVars, runVars, harnessVars, javaVars, dlVars, condVars, jvmVars, cpVars, assetVars, nativeVars, instVars, forgeVars, ensureVars, twoVars, guiVars>>
ArgOnly == UNCHANGED <<acctVars, pollVars, libVars, ruleVars, fabricVars, runVars, harnessVars, javaVars, dlVars, condVars, jvmVars, cpVars, assetVars, nativeVars, instVars, forgeVars, ensureVars, twoVars, guiVars>>
RunOnly == UNCHANGED <<acctVars, pollVars, libVars, ruleVars, fabricVars, argVars, harnessVars, javaVars, dlVars, condVars, jvmVars, cpVars, assetVars, nativeVars, instVars, forgeVars, ensureVars, twoVars, guiVars>>
HarnessOnly == UNCHANGED <<pollVars, libVars, ruleVars, fabricVars, argVars, runVars, acctVars, javaVars, dlVars, condVars, jvmVars, cpVars, assetVars, nativeVars, instVars, forgeVars, ensureVars, twoVars, guiVars>>
JavaOnly == UNCHANGED <<pollVars, libVars, ruleVars, fabricVars, argVars, runVars, harnessVars, acctVars, dlVars, condVars, jvmVars, cpVars, assetVars, nativeVars, instVars, forgeVars, ensureVars, twoVars, guiVars>>
DlOnly == UNCHANGED <<pollVars, libVars, ruleVars, fabricVars, argVars, runVars, harnessVars, javaVars, acctVars, condVars, jvmVars, cpVars, assetVars, nativeVars, instVars, forgeVars, ensureVars, twoVars, guiVars>>
CondOnly == UNCHANGED <<pollVars, libVars, ruleVars, fabricVars, argVars, runVars, harnessVars, javaVars, dlVars, acctVars, jvmVars, cpVars, assetVars, nativeVars, instVars, forgeVars, ensureVars, twoVars, guiVars>>
JvmOnly == UNCHANGED <<pollVars, libVars, ruleVars, fabricVars, argVars, runVars, harnessVars, javaVars, dlVars, condVars, acctVars, cpVars, assetVars, nativeVars, instVars, forgeVars, ensureVars, twoVars, guiVars>>
CpOnly == UNCHANGED <<pollVars, libVars, ruleVars, fabricVars, argVars, runVars, harnessVars, javaVars, dlVars, condVars, jvmVars, acctVars, assetVars, nativeVars, instVars, forgeVars, ensureVars, twoVars, guiVars>>
AssetOnly == UNCHANGED <<pollVars, libVars, ruleVars, fabricVars, argVars, runVars, harnessVars, javaVars, dlVars, condVars, jvmVars, cpVars, acctVars, nativeVars, instVars, forgeVars, ensureVars, twoVars, guiVars>>
NativeOnly == UNCHANGED <<pollVars, libVars, ruleVars, fabricVars, argVars, runVars, harnessVars, javaVars, dlVars, condVars, jvmVars, cpVars, assetVars, acctVars, instVars, forgeVars, ensureVars, twoVars, guiVars>>
InstOnly == UNCHANGED <<pollVars, libVars, ruleVars, fabricVars, argVars, runVars, harnessVars, javaVars, dlVars, condVars, jvmVars, cpVars, assetVars, nativeVars, acctVars, forgeVars, ensureVars, twoVars, guiVars>>
ForgeOnly == UNCHANGED <<pollVars, libVars, ruleVars, fabricVars, argVars, runVars, harnessVars, javaVars, dlVars, condVars, jvmVars, cpVars, assetVars, nativeVars, instVars, acctVars, ensureVars, twoVars, guiVars>>
EnsureOnly == UNCHANGED <<pollVars, libVars, ruleVars, fabricVars, argVars, runVars, harnessVars, javaVars, dlVars, condVars, jvmVars, cpVars, assetVars, nativeVars, instVars, forgeVars, acctVars, twoVars, guiVars>>
TwoOnly == UNCHANGED <<pollVars, libVars, ruleVars, fabricVars, argVars, runVars, harnessVars, javaVars, dlVars, condVars, jvmVars, cpVars, assetVars, nativeVars, instVars, forgeVars, ensureVars, acctVars, guiVars>>
GuiOnly == UNCHANGED <<pollVars, libVars, ruleVars, fabricVars, argVars, runVars, harnessVars, javaVars, dlVars, condVars, jvmVars, cpVars, assetVars, nativeVars, instVars, forgeVars, ensureVars, twoVars, acctVars>>

\* ========================================================================
\* Account manager (src/src/core/auth/manager.rs)
\* ========================================================================

\* What authenticate / refresh_account return on success: one chain run gives
\* the profile, the refresh token and the Minecraft access token together.
ChainResults ==
    {[id |-> i, ms_refresh_token |-> g, mc_access_token |-> g] : i \in Ids, g \in Gens}

Account(r, active) ==
    [id |-> r.id, ms_refresh_token |-> r.ms_refresh_token,
     mc_access_token |-> r.mc_access_token, is_active |-> active]

EmptyData == [accounts |-> <<>>, active_uuid |-> None]

\* serde_json::to_string(&self.data): the JSON document of AccountsData, each
\* account with its nested profile object.
ToJson(d) ==
    [accounts |-> [i \in DOMAIN d.accounts |->
                     [profile |-> [id |-> d.accounts[i].id],
                      ms_refresh_token |-> d.accounts[i].ms_refresh_token,
                      mc_access_token |-> d.accounts[i].mc_access_token,
                      is_active |-> d.accounts[i].is_active]],
     active_uuid |-> d.active_uuid]

\* serde_json::from_str::<AccountsData>(&json)
FromJson(j) ==
    [accounts |-> [i \in DOMAIN j.accounts |->
                     [id |-> j.accounts[i].profile.id,
                      ms_refresh_token |-> j.accounts[i].ms_refresh_token,
                      mc_access_token |-> j.accounts[i].mc_access_token,
                      is_active |-> j.accounts[i].is_active]],
     active_uuid |-> j.active_uuid]

\* load_accounts().unwrap_or_default(): a missing entry is the empty set.
LoadAccounts(st) == IF st = NoEntry THEN EmptyData ELSE FromJson(st[1])

HasAccount(accs, uuid) == \E i \in DOMAIN accs : accs[i].id = uuid

\* self.data.accounts.iter().find(|a| a.profile.id == uuid): first match.
FindIndex(accs, uuid) ==
    CHOOSE i \in DOMAIN accs :
        accs[i].id = uuid /\ \A j \in DOMAIN accs : accs[j].id = uuid => i <= j

\* A plausible slip: mark the chosen account and leave the others as they were.
SetFlagsKeepOthers(accs, uuid) ==
    [i \in DOMAIN accs |->
        IF accs[i].id = uuid THEN [accs[i] EXCEPT !.is_active = TRUE] ELSE accs[i]]

\* for account in &mut accounts { account.is_active = account.profile.id == uuid }
SetFlags(accs, uuid) ==
    [i \in DOMAIN accs |-> [accs[i] EXCEPT !.is_active = (accs[i].id = uuid)]]

\* accounts.retain(|a| a.profile.id != uuid)
Retain(accs, uuid) == SelectSeq(accs, LAMBDA a : a.id # uuid)

\* A login that adds the account again when it is already known.
UpdateTokensAppending(accs, r) == Append(accs, Account(r, TRUE))

\* Copy the tokens and profile of a chain result into the first account with its id.
UpdateTokens(accs, r) ==
    IF HasAccount(accs, r.id)
    THEN [accs EXCEPT ![FindIndex(accs, r.id)] =
            [@ EXCEPT !.ms_refresh_token = r.ms_refresh_token,
                      !.mc_access_token = r.mc_access_token]]
    ELSE accs

\* active_account(): the first account whose id is active_uuid, if any.
HasActiveAccount(d) == d.active_uuid # None /\ HasAccount(d.accounts, d.active_uuid)

\* save_accounts(): a full rewrite of the entry, or a keychain failure.
Saved(d, saveOk) == IF saveOk THEN <<ToJson(d)>> ELSE store

AcctInit ==
    /\ store = NoEntry
    /\ data = LoadAccounts(NoEntry)
    /\ ret = [op |-> "new", result |-> "Ok"]
    /\ PollIdle
    /\ LibIdle
    /\ RuleIdle
    /\ FabricIdle
    /\ ArgIdle
    /\ RunIdle
    /\ HarnessIdle
    /\ JavaIdle
    /\ DlIdle
    /\ CondIdle
    /\ JvmIdle
    /\ CpIdle
    /\ AssetIdle
    /\ NativeIdle
    /\ InstIdle
    /\ ForgeIdle
    /\ EnsureIdle
    /\ TwoIdle
    /\ GuiIdle

\* AccountManager::new(): a fresh manager loads the stored accounts.
NewManager ==
    /\ data' = LoadAccounts(store)
    /\ ret' = [op |-> "new", result |-> "Ok"]
    /\ UNCHANGED store
    /\ AcctOnly

SetActive ==
    /\ \E uuid \in Ids, saveOk \in BOOLEAN :
        IF ~HasAccount(data.accounts, uuid)
        THEN /\ ret' = [op |-> "set_active", result |-> "Err"]
             /\ UNCHANGED <<data, store>>
        ELSE /\ data' = [accounts |-> SetFlags(data.accounts, uuid), active_uuid |-> uuid]
             /\ store' = Saved(data', saveOk)
             /\ ret' = [op |-> "set_active", result |-> IF saveOk THEN "Ok" ELSE "Err"]
    /\ AcctOnly

\* authenticate fails: the error is returned before anything is touched.
CompleteLoginAuthFails ==
    /\ ret' = [op |-> "complete_login", result |-> "Err"]
    /\ UNCHANGED <<data, store>>
    /\ AcctOnly

CompleteLogin ==
    /\ \E r \in ChainResults, saveOk \in BOOLEAN :
        LET account == Account(r, TRUE)
            accs == IF HasAccount(data.accounts, r.id)
                    THEN UpdateTokens(data.accounts, r)
                    ELSE Append(data.accounts, account)
        IN /\ data' = [accounts |-> SetFlags(accs, r.id), active_uuid |-> r.id]
           /\ store' = Saved(data', saveOk)
           /\ ret' = [op |-> "complete_login", result |-> IF saveOk THEN "Ok" ELSE "Err"]
    /\ AcctOnly

\* No active account, or the refresh chain fails: nothing is touched.
RefreshActiveFails ==
    /\ ret' = [op |-> "refresh_active", result |-> "Err"]
    /\ UNCHANGED <<data, store>>
    /\ AcctOnly

RefreshActive ==
    /\ HasActiveAccount(data)
    /\ \E r \in ChainResults, saveOk \in BOOLEAN :
        /\ data' = [data EXCEPT !.accounts = UpdateTokens(data.accounts, r)]
        /\ store' = Saved(data', saveOk)
        /\ ret' = [op |-> "refresh_active", result |-> IF saveOk THEN "Ok" ELSE "Err"]
    /\ AcctOnly

RemoveAccount ==
    /\ \E uuid \in Ids, saveOk \in BOOLEAN :
        LET kept == Retain(data.accounts, uuid)
            first == IF kept = <<>> THEN None ELSE kept[1].id
        IN IF Len(kept) = Len(data.accounts)
           THEN /\ ret' = [op |-> "remove_account", result |-> "Err"]
                /\ UNCHANGED <<data, store>>
           ELSE /\ data' = IF data.active_uuid = uuid
                           THEN [accounts |-> IF first = None THEN kept
                                              ELSE SetFlags(kept, first),
                                 active_uuid |-> first]
                           ELSE [data EXCEPT !.accounts = kept]
                /\ store' = Saved(data', saveOk)
                /\ ret' = [op |-> "remove_account",
                           result |-> IF saveOk THEN "Ok" ELSE "Err"]
    /\ AcctOnly

\* logout_all: the delete's result is ignored, so the entry may survive.
LogoutAll ==
    /\ data' = EmptyData
    /\ \E deleted \in BOOLEAN : store' = IF deleted THEN NoEntry ELSE store
    /\ ret' = [op |-> "logout_all", result |-> "Ok"]
    /\ AcctOnly

AcctNext ==
    \/ NewManager
    \/ SetActive
    \/ CompleteLoginAuthFails
    \/ CompleteLogin
    \/ RefreshActiveFails
    \/ RefreshActive
    \/ RemoveAccount
    \/ LogoutAll

SpecAccounts == AcctInit /\ [][AcctNext]_vars

\* ------------------------------------------------------------------------
\* C1: after any sequence of account-manager operations from an empty store,
\* whether each returned Ok or Err, at most one account has is_active = true.
ActiveCount(accs) == Cardinality({i \in DOMAIN accs : accs[i].is_active})

C1_AtMostOneActive == ActiveCount(data.accounts) <= 1

\* Two accounts are known, set_active has switched to the second one and
\* exactly one account is flagged.
C1_Witness ==
    /\ Len(data.accounts) >= 2
    /\ ret.op = "set_active"
    /\ data.accounts[2].is_active
    /\ ActiveCount(data.accounts) = 1

\* ------------------------------------------------------------------------
\* C12: after an account-manager operation returned Ok, the secret store
\* holds exactly the in-memory account set: a fresh AccountManager loads the
\* same accounts, flags and active account, whatever the keychain write or
\* delete did.
C12_StoreMatchesMemory ==
    (ret.result = "Ok"
       /\ ret.op \in {"set_active", "complete_login", "refresh_active",
                      "remove_account", "logout_all"})
        => LoadAccounts(store) = data

\* The profile ids of the accounts, in order.
IdsOf(accs) == [i \in DOMAIN accs |-> accs[i].id]

\* No two accounts share an id; active_uuid is None or the id of an account;
\* an account is flagged iff its id is active_uuid.
AccountsConsistent ==
    /\ \A i, j \in DOMAIN data.accounts :
            data.accounts[i].id = data.accounts[j].id => i = j
    /\ data.active_uuid # None =>
            \E i \in DOMAIN data.accounts : data.accounts[i].id = data.active_uuid
    /\ \A i \in DOMAIN data.accounts :
            data.accounts[i].is_active <=> data.accounts[i].id = data.active_uuid

\* A login of a known account leaves the accounts where they were; a removal
\* of the active account makes the first remaining account active (None
\* when none remains).
LoginInPlaceRemoveElectsFirst ==
    /\ (/\ ret'.op = "complete_login"
        /\ data'.active_uuid # None
        /\ \E i \in DOMAIN data.accounts : data.accounts[i].id = data'.active_uuid)
       => IdsOf(data'.accounts) = IdsOf(data.accounts)
    /\ (/\ ret'.op = "remove_account"
        /\ data.active_uuid # None
        /\ Len(data'.accounts) < Len(data.accounts)
        /\ \A i \in DOMAIN data'.accounts : data'.accounts[i].id # data.active_uuid)
       => data'.active_uuid =
            (IF data'.accounts = <<>> THEN None ELSE data'.accounts[1].id)

\* C35: after any sequence of account-manager operations from an empty
\* store, no two accounts share a profile id, active_uuid is None or the id
\* of an account of the set, and an account is flagged active iff its id is
\* active_uuid; a login of a known account updates it in place and removing
\* the active account makes the first remaining account active.
C35_AccountSetConsistent ==
    []AccountsConsistent /\ [][LoginInPlaceRemoveElectsFirst]_vars

\* A second login of the first of two accounts: it is active again and
\* still first.
C35_Witness ==
    /\ Len(data.accounts) = 2
    /\ ret.op = "complete_login"
    /\ data.active_uuid = data.accounts[1].id
    /\ data.accounts[1].is_active
    /\ data.accounts[1].mc_access_token = "t2"
    /\ data.accounts[2].mc_access_token = "t1"

\* C36: an account-manager operation that returns Err leaves the in-memory
\* account set, the is_active flags and active_uuid as they were before
\* the call.
C36_ErrLeavesMemoryUnchanged ==
    [][ret'.result = "Err" => data' = data]_vars

\* ========================================================================
\* Device-code polling loop (src/src/core/auth/microsoft.rs, poll_for_token)
\* ========================================================================

\* The clock is capped so that the state space is finite.
MaxElapsed == 30
\* tokio::time::sleep(Duration::from_secs(5)) after slow_down.
SlowDownSeconds == 5

\* Tickets the authorization server may issue (seconds).
Intervals == {1, 5}
ExpiresIns == {10, 15}

\* What one POST to the token endpoint can come back with.
FailingResponses ==
    {"send_error", "body_not_json", "ok_without_tokens",
     "expired_token", "authorization_declined", "other_error"}
ContinuingResponses == {"authorization_pending", "no_error_field"}

\* authenticate calls poll_for_token with the ticket's device_code and interval;
\* expires_in is a field of the ticket that poll_for_token is not given.
PollInit ==
    /\ \E i \in Intervals, e \in ExpiresIns :
        poll = [pc |-> "sleep", interval |-> i, expires_in |-> e, elapsed |-> 0,
                result |-> "none", last |-> "none", posts |-> 0, pending |-> 0,
                slow |-> 0, other |-> 0, sent |-> "", tokens |-> ""]
    /\ AcctIdle
    /\ LibIdle
    /\ RuleIdle
    /\ FabricIdle
    /\ ArgIdle
    /\ RunIdle
    /\ HarnessIdle
    /\ JavaIdle
    /\ DlIdle
    /\ CondIdle
    /\ JvmIdle
    /\ CpIdle
    /\ AssetIdle
    /\ NativeIdle
    /\ InstIdle
    /\ ForgeIdle
    /\ EnsureIdle
    /\ TwoIdle
    /\ GuiIdle

\* loop { sleep(interval) ...
PollSleep ==
    /\ poll.pc = "sleep"
    /\ poll.elapsed + poll.interval <= MaxElapsed
    /\ poll' = [poll EXCEPT !.pc = "post", !.elapsed = @ + poll.interval]
    /\ PollOnly

\* status.is_success() and the body parses as MsTokenResponse: return Ok(token).
\* posts counts the POSTs sent, sent is the token pair the 2xx body carried, tokens
\* the pair poll_for_token returned.
PollPostReady ==
    /\ poll.pc = "post"
    /\ \E g \in Gens :
        poll' = [poll EXCEPT !.pc = "done", !.result = "Ready", !.last = "ok",
                             !.posts = @ + 1, !.sent = g, !.tokens = g]
    /\ PollOnly

\* send/json/from_value fail (the ? operator), or the error is a terminal one.
PollPostFails ==
    /\ poll.pc = "post"
    /\ \E r \in FailingResponses :
        poll' = [poll EXCEPT !.pc = "done", !.result = "Failed", !.last = r,
                             !.posts = @ + 1]
    /\ PollOnly

\* authorization_pending => continue; a non-2xx body without an "error" string
\* falls out of the if-let and the loop goes round again.
\* A loop whose `continue` skips the sleep at the head of the loop.
PollPostContinuesNoSleep ==
    /\ poll.pc = "post"
    /\ \E r \in ContinuingResponses :
        poll' = [poll EXCEPT !.pc = "post", !.last = r, !.posts = @ + 1,
                             !.pending = @ + (IF r = "authorization_pending" THEN 1 ELSE 0),
                             !.other = @ + (IF r = "authorization_pending" THEN 0 ELSE 1)]
    /\ PollOnly

PollPostContinues ==
    /\ poll.pc = "post"
    /\ \E r \in ContinuingResponses :
        poll' = [poll EXCEPT !.pc = "sleep", !.last = r, !.posts = @ + 1,
                             !.pending = @ + (IF r = "authorization_pending" THEN 1 ELSE 0),
                             !.other = @ + (IF r = "authorization_pending" THEN 0 ELSE 1)]
    /\ PollOnly

\* slow_down => sleep 5 more seconds, continue.
PollPostSlowDown ==
    /\ poll.pc = "post"
    /\ poll.elapsed + SlowDownSeconds <= MaxElapsed
    /\ poll' = [poll EXCEPT !.pc = "sleep", !.elapsed = @ + SlowDownSeconds,
                            !.last = "slow_down", !.posts = @ + 1, !.slow = @ + 1]
    /\ PollOnly

PollNext ==
    \/ PollSleep
    \/ PollPostReady
    \/ PollPostFails
    \/ PollPostContinues
    \/ PollPostSlowDown

SpecPoll == PollInit /\ [][PollNext]_vars

\* ------------------------------------------------------------------------
\* C2: the polling loop terminates with Ready or a failure within expires_in
\* seconds of ticket issuance, for every sequence of token-endpoint responses:
\* once more than expires_in seconds have passed, the loop is no longer running.
C2_TerminatesWithinExpiry ==
    poll.elapsed > poll.expires_in => poll.pc = "done"

\* C15: poll_for_token has slept the interval once for every POST it sent
\* or is about to send, plus 5 seconds for every slow_down; it ends in Ready
\* only on a 2xx response and then returns that response's tokens, it ends in
\* a failure only on expired_token, authorization_declined, another error
\* value or a failed request, and after k authorization_pending responses
\* (and nothing else) followed by a success it has made exactly k + 1 POSTs.
C15_PollLoop ==
    /\ poll.pc \in {"sleep", "post", "done"} =>
         poll.elapsed = (poll.posts + (IF poll.pc = "post" THEN 1 ELSE 0)) * poll.interval
                          + SlowDownSeconds * poll.slow
    /\ poll.pc \in {"sleep", "post"} =>
         /\ poll.posts = poll.pending + poll.slow + poll.other
         /\ poll.result = "none" /\ poll.last \in ContinuingResponses \cup {"slow_down", "none"}
    /\ (poll.pc = "done" /\ poll.result = "Ready") =>
         /\ poll.last = "ok"
         /\ poll.tokens = poll.sent
         /\ poll.posts = poll.pending + poll.slow + poll.other + 1
         /\ (poll.slow = 0 /\ poll.other = 0) => poll.posts = poll.pending + 1
    /\ (poll.pc = "done" /\ poll.result = "Failed") =>
         poll.last \in FailingResponses

\* Two authorization_pending answers, then a success: three POSTs.
C15_Witness ==
    /\ poll.pc = "done"
    /\ poll.result = "Ready"
    /\ poll.pending = 2
    /\ poll.posts = 3
    /\ poll.slow = 0
    /\ poll.tokens = "t2"

\* ========================================================================
\* Library downloads into the shared libraries directory
\* (src/src/core/library/mod.rs; two launches as in runner.rs:194-246)
\* ========================================================================

\* Number of library artifacts of the descriptor both launches resolve.
NumArtifacts == 1
\* const CONCURRENT_DOWNLOADS: usize = 8 (library downloads).
LibConcurrency == 8

Artifacts == 1..NumArtifacts
\* Two launches (two processes, or two launch threads of the GUI).
Launches == {"L1", "L2"}

\* What is at an artifact's path: nothing, a file whose SHA-1 is artifact.sha1
\* (the intended bytes), or a file with any other bytes.
Contents == {"absent", "good", "bad"}

NoJob ==
    [st |-> "none", bytes |-> "none", result |-> "none", checked |-> "none",
     before |-> "none", atEnd |-> "none", interfered |-> FALSE]

\* verify_sha1(path, expected): Err when the file cannot be read.
VerifySha1(content) ==
    CASE content = "absent" -> "error"
      [] content = "good" -> "match"
      [] OTHER -> "mismatch"

\* get_missing_libraries: !path.exists(), else (unless skip_verification) a
\* non-empty sha1 that verify_sha1(..).unwrap_or(false) does not confirm.
IsMissing(a, skip) ==
    \/ libDisk[a] = "absent"
    \/ ~skip /\ libSha[a] /\ VerifySha1(libDisk[a]) # "match"

MissingLibraries(skip) == {a \in Artifacts : IsMissing(a, skip)}

\* Jobs whose future has been started and has not finished.
ActiveStates == {"fetching", "write", "verify", "remove"}
InFlight(l) == {a \in Artifacts : lm[l].job[a].st \in ActiveStates}
\* From the arrival of the bytes to its return a job runs without an await:
\* no other job of the same download_all is polled meanwhile.
Running(l) == {a \in Artifacts : lm[l].job[a].st \in {"write", "verify", "remove"}}

\* The other launches' unfinished jobs for path a see a foreign write or removal.
Interfere(rec, a) ==
    IF rec.job[a].st \in ActiveStates
    THEN [rec EXCEPT !.job[a].interfered = TRUE]
    ELSE rec

\* A buggy verification step that accepts whatever was written.
VerifyOutcomeAcceptAll(hasSha, content) == "ok"

\* if !artifact_sha1.is_empty() && !verify_sha1(&dest, &artifact_sha1)? { remove; bail }
VerifyOutcome(hasSha, content) ==
    IF ~hasSha THEN "ok"
    ELSE CASE VerifySha1(content) = "match" -> "ok"
           [] VerifySha1(content) = "mismatch" -> "remove"
           [] OTHER -> "io_error"

LibInit ==
    /\ libSha \in [Artifacts -> BOOLEAN]
    /\ libDisk \in [Artifacts -> Contents]
    /\ \E sk \in [Launches -> BOOLEAN] :
        lm = [l \in Launches |->
                [pc |-> "check", skip |-> sk[l], missing |-> {},
                 job |-> [a \in Artifacts |-> NoJob], stage |-> "none",
                 uses |-> [a \in Artifacts |-> {}]]]
    /\ AcctIdle
    /\ PollIdle
    /\ RuleIdle
    /\ FabricIdle
    /\ ArgIdle
    /\ RunIdle
    /\ HarnessIdle
    /\ JavaIdle
    /\ DlIdle
    /\ CondIdle
    /\ JvmIdle
    /\ CpIdle
    /\ AssetIdle
    /\ NativeIdle
    /\ InstIdle
    /\ ForgeIdle
    /\ EnsureIdle
    /\ TwoIdle
    /\ GuiIdle

\* download_all: get_missing_libraries; total == 0 returns Ok at once.
GetMissing(l) ==
    /\ lm[l].pc = "check"
    /\ LET missing == MissingLibraries(lm[l].skip)
       IN lm' = [lm EXCEPT ![l] =
            [@ EXCEPT !.missing = missing,
                      !.pc = IF missing = {} THEN "between" ELSE "jobs",
                      !.stage = IF missing = {} THEN "Ok" ELSE "none",
                      !.job = [a \in Artifacts |->
                                IF a \in missing THEN [NoJob EXCEPT !.st = "queued"]
                                ELSE NoJob]]]
    /\ UNCHANGED <<libSha, libDisk>>
    /\ LibOnly

\* buffer_unordered(CONCURRENT_DOWNLOADS) starts the next job: reqwest::get is sent.
Dispatch(l, a) ==
    /\ lm[l].pc = "jobs"
    /\ lm[l].job[a].st = "queued"
    /\ Running(l) = {}
    /\ Cardinality(InFlight(l)) < LibConcurrency
    /\ lm' = [lm EXCEPT ![l].job[a].st = "fetching", ![l].job[a].before = libDisk[a]]
    /\ UNCHANGED <<libSha, libDisk>>
    /\ LibOnly

\* reqwest::get(..).await or response.bytes().await fails: the job returns Err.
FetchFails(l, a) ==
    /\ lm[l].job[a].st = "fetching"
    /\ Running(l) = {}
    /\ lm' = [lm EXCEPT ![l].job[a] =
                [@ EXCEPT !.st = "done", !.result = "ErrTransport",
                          !.atEnd = libDisk[a]]]
    /\ UNCHANGED <<libSha, libDisk>>
    /\ LibOnly

\* The body arrives: the intended bytes, or others (corruption, an error page).
Receive(l, a) ==
    /\ lm[l].job[a].st = "fetching"
    /\ Running(l) = {}
    /\ \E bytes \in {"good", "bad"} :
        lm' = [lm EXCEPT ![l].job[a].st = "write", ![l].job[a].bytes = bytes]
    /\ UNCHANGED <<libSha, libDisk>>
    /\ LibOnly

\* std::fs::write(&dest, &bytes): straight onto the artifact's path.
WriteFile(l, a) ==
    /\ lm[l].job[a].st = "write"
    /\ libDisk' = [libDisk EXCEPT ![a] = lm[l].job[a].bytes]
    /\ lm' = [k \in Launches |->
                IF k = l THEN [lm[l] EXCEPT !.job[a].st = "verify"]
                ELSE Interfere(lm[k], a)]
    /\ UNCHANGED libSha
    /\ LibOnly

\* The SHA-1 check of whatever is at the path now; Ok(lib_name) when it passes.
Verify(l, a) ==
    /\ lm[l].job[a].st = "verify"
    /\ LET out == VerifyOutcome(libSha[a], libDisk[a])
       IN lm' = [lm EXCEPT ![l].job[a] =
            CASE out = "ok" ->
                    [@ EXCEPT !.st = "done", !.result = "Ok", !.atEnd = libDisk[a],
                              !.checked = IF libSha[a] THEN "match" ELSE "skipped"]
              [] out = "remove" -> [@ EXCEPT !.st = "remove", !.checked = "mismatch"]
              [] OTHER ->
                    [@ EXCEPT !.st = "done", !.result = "ErrIo", !.atEnd = libDisk[a],
                              !.checked = "error"]]
    /\ UNCHANGED <<libSha, libDisk>>
    /\ LibOnly

\* std::fs::remove_file(&dest)?; bail!("SHA1 mismatch ...")
RemoveFile(l, a) ==
    /\ lm[l].job[a].st = "remove"
    /\ IF libDisk[a] = "absent"
       THEN /\ lm' = [lm EXCEPT ![l].job[a] =
                        [@ EXCEPT !.st = "done", !.result = "ErrIo", !.atEnd = "absent"]]
            /\ UNCHANGED libDisk
       ELSE /\ libDisk' = [libDisk EXCEPT ![a] = "absent"]
            /\ lm' = [k \in Launches |->
                        IF k = l
                        THEN [lm[l] EXCEPT !.job[a] =
                                [@ EXCEPT !.st = "done", !.result = "ErrChecksum",
                                          !.atEnd = "absent"]]
                        ELSE Interfere(lm[k], a)]
    /\ UNCHANGED libSha
    /\ LibOnly

\* for result in download_results { result?; }  Ok(())
StageReturn(l) ==
    /\ lm[l].pc = "jobs"
    /\ \A a \in lm[l].missing : lm[l].job[a].st = "done"
    /\ LET ok == \A a \in lm[l].missing : lm[l].job[a].result = "Ok"
       IN lm' = [lm EXCEPT ![l].stage = IF ok THEN "Ok" ELSE "Err",
                           ![l].pc = IF ok THEN "between" ELSE "failed"]
    /\ UNCHANGED <<libSha, libDisk>>
    /\ LibOnly

\* The asset index, the assets and the client JAR come between the library
\* download and the first use of the library files.
OtherStages(l) ==
    /\ lm[l].pc = "between"
    /\ lm' = [lm EXCEPT ![l].pc = "natives"]
    /\ UNCHANGED <<libSha, libDisk>>
    /\ LibOnly

\* extract_natives opens the library files that exist.
ExtractNatives(l) ==
    /\ lm[l].pc = "natives"
    /\ lm' = [lm EXCEPT ![l].pc = "spawn",
                        ![l].uses = [a \in Artifacts |-> @[a] \cup {libDisk[a]}]]
    /\ UNCHANGED <<libSha, libDisk>>
    /\ LibOnly

\* build_classpath names every library path; the spawned JVM opens them.
SpawnReadsClasspath(l) ==
    /\ lm[l].pc = "spawn"
    /\ lm' = [lm EXCEPT ![l].pc = "running",
                        ![l].uses = [a \in Artifacts |-> @[a] \cup {libDisk[a]}]]
    /\ UNCHANGED <<libSha, libDisk>>
    /\ LibOnly

LibNext ==
    \E l \in Launches :
        \/ GetMissing(l)
        \/ StageReturn(l)
        \/ OtherStages(l)
        \/ ExtractNatives(l)
        \/ SpawnReadsClasspath(l)
        \/ \E a \in Artifacts :
            \/ Dispatch(l, a)
            \/ FetchFails(l, a)
            \/ Receive(l, a)
            \/ WriteFile(l, a)
            \/ Verify(l, a)
            \/ RemoveFile(l, a)

SpecLibrary == LibInit /\ [][LibNext]_vars

C8_ConcurrentLaunchesSafe ==
    \A l \in Launches, a \in Artifacts :
        (/\ libSha[a]
         /\ \A k \in Launches : a \in lm[k].missing
         /\ lm[l].stage = "Ok")
        => lm[l].uses[a] \subseteq {"good"}

\* ========================================================================
\* Rule evaluation (src/src/core/version/details.rs)
\* ========================================================================
\* Longest rule list considered.
MaxRules == 2

\* The hosts a build can target: cfg!(target_os) and cfg!(target_arch).
OsNames == {"windows", "osx", "linux"}
Archs == {"x86", "x64", "arm64"}
Hosts == [os : OsNames, arch : Archs]

\* Rule { action, os: Option<OsRule { name, arch }> }; "none" is an absent field
\* (an absent os is an OsRule with no field: both match every host).
RuleActions == {"allow", "disallow"}
RuleSet == [action : RuleActions, name : OsNames \cup {"none"}, arch : Archs \cup {"none"}]
RuleLists == UNION {[1..n -> RuleSet] : n \in 0..MaxRules}

\* OsRule::matches_current: a named field that differs from the host's fails.
MatchesCurrent(r, host) ==
    /\ (r.name # "none" => r.name = host.os)
    /\ (r.arch # "none" => r.arch = host.arch)

\* An evaluation that reads every action as "allow".
IsAllowedActionIgnored(r, host) == MatchesCurrent(r, host)

\* Rule::is_allowed
IsAllowed(r, host) ==
    CASE r.action = "allow" -> MatchesCurrent(r, host)
      [] r.action = "disallow" -> ~MatchesCurrent(r, host)
      [] OTHER -> TRUE

\* Library::should_include with Some(rules): rules.iter().all(is_allowed)
ShouldInclude(rs, host) == \A i \in DOMAIN rs : IsAllowed(rs[i], host)

RuleInit ==
    /\ \E rs \in RuleLists, h \in Hosts :
        rules = [list |-> rs, host |-> h, pc |-> "input", included |-> FALSE]
    /\ AcctIdle
    /\ PollIdle
    /\ LibIdle
    /\ FabricIdle
    /\ ArgIdle
    /\ RunIdle
    /\ HarnessIdle
    /\ JavaIdle
    /\ DlIdle
    /\ CondIdle
    /\ JvmIdle
    /\ CpIdle
    /\ AssetIdle
    /\ NativeIdle
    /\ InstIdle
    /\ ForgeIdle
    /\ EnsureIdle
    /\ TwoIdle
    /\ GuiIdle

\* get_missing_libraries / build_classpath / extract_natives ask should_include.
EvalShouldInclude ==
    /\ rules.pc = "input"
    /\ rules' = [rules EXCEPT !.pc = "done",
                              !.included = ShouldInclude(rules.list, rules.host)]
    /\ RuleOnly

RuleNext == EvalShouldInclude

SpecRules == RuleInit /\ [][RuleNext]_vars

\* The rule evaluator of the claim: a rule matches iff each os field it names
\* equals the host's; the last matching rule decides (allow or deny); a list
\* with no matching rule denies.
MatchingRules(rs, host) == {i \in DOMAIN rs : MatchesCurrent(rs[i], host)}

LastOf(S) == CHOOSE i \in S : \A j \in S : j <= i

FourClause(rs, host) ==
    /\ MatchingRules(rs, host) # {}
    /\ rs[LastOf(MatchingRules(rs, host))].action = "allow"

\* C5: for every library with a non-empty rule list and every host,
\* should_include equals the four-clause evaluation (default deny when no
\* rule matches the host).
C5_ShouldIncludeIsFourClause ==
    (rules.pc = "done" /\ Len(rules.list) > 0)
        => rules.included = FourClause(rules.list, rules.host)

\* C20: a library whose rules are an unconditional allow followed by a
\* disallow that names one OS (and no arch) is included exactly on the hosts
\* whose OS is not that name: [allow, disallow os=osx] is included on Linux
\* and Windows and excluded on macOS.
C20_AllowThenDisallowOs ==
    (/\ rules.pc = "done"
     /\ Len(rules.list) = 2
     /\ rules.list[1] = [action |-> "allow", name |-> "none", arch |-> "none"]
     /\ rules.list[2].action = "disallow"
     /\ rules.list[2].name # "none"
     /\ rules.list[2].arch = "none")
        => rules.included = (rules.host.os # rules.list[2].name)

C20_Witness ==
    /\ rules.pc = "done"
    /\ rules.list = << [action |-> "allow", name |-> "none", arch |-> "none"],
                       [action |-> "disallow", name |-> "osx", arch |-> "none"] >>
    /\ rules.host.os = "linux"
    /\ rules.included

\* ========================================================================
\* Fabric overlay (src/src/core/fabric/mod.rs)
\* ========================================================================
\* Longest vanilla library list and longest Fabric profile library list.
MaxVanilla == 2
MaxFabric == 2

\* Library names, already split at ':' as name.split(':') does: a name with
\* no colon, versions of one group:artifact, its natives-classifier variant,
\* and a library of another group.
LibNames ==
    { <<"bare">>,
      <<"org.ow2.asm", "asm", "9.3">>,
      <<"org.ow2.asm", "asm", "9.6">>,
      <<"org.ow2.asm", "asm", "9.3", "natives-linux">>,
      <<"net.fabricmc", "loader", "0.15">> }

\* A vanilla descriptor's library carries the artifact's SHA-1.
VanillaLibrary(n) == [name |-> n, sha1 |-> "sha1"]

\* convert_libraries: the same name, an artifact with an empty SHA-1.
ConvertLibrary(n) == [name |-> n, sha1 |-> ""]

ConvertLibraries(names) == [i \in DOMAIN names |-> ConvertLibrary(names[i])]

\* parts.len() >= 2 gives the key format!("{}:{}", parts[0], parts[1]).
HasKey(lib) == Len(lib.name) >= 2

LibKey(lib) == <<lib.name[1], lib.name[2]>>

FabricKeys(libs) == {LibKey(libs[i]) : i \in {j \in DOMAIN libs : HasKey(libs[j])}}

\* A retain that drops nothing.
RetainVanillaKeepAll(libs, fabric_libs) == libs

\* A retain that compares whole names instead of group:artifact keys.
RetainVanillaByName(libs, fabric_libs) ==
    SelectSeq(libs, LAMBDA lib :
        ~(\E i \in DOMAIN fabric_libs : fabric_libs[i].name = lib.name))

\* merged.libraries.retain(..): drop a vanilla library whose key is a Fabric key.
RetainVanilla(libs, fabric_libs) ==
    SelectSeq(libs, LAMBDA lib :
        ~(HasKey(lib) /\ LibKey(lib) \in FabricKeys(fabric_libs)))

\* A merge that puts the profile's libraries in front of the vanilla ones.
MergeVersionDetailsPrepend(vanilla, profile) ==
    LET fabric_libs == ConvertLibraries(profile.libraries)
    IN [vanilla EXCEPT
          !.main_class = profile.main_class,
          !.libraries = fabric_libs \o RetainVanilla(vanilla.libraries, fabric_libs),
          !.inherits_from = profile.inherits_from]

\* merge_version_details: a clone of the vanilla descriptor with the main
\* class, the libraries and inherits_from replaced.
MergeVersionDetails(vanilla, profile) ==
    LET fabric_libs == ConvertLibraries(profile.libraries)
    IN [vanilla EXCEPT
          !.main_class = profile.main_class,
          !.libraries = RetainVanilla(vanilla.libraries, fabric_libs) \o fabric_libs,
          !.inherits_from = profile.inherits_from]

VanillaLists == UNION {[1..n -> {VanillaLibrary(x) : x \in LibNames}] : n \in 0..MaxVanilla}
ProfileLists == UNION {[1..n -> LibNames] : n \in 0..MaxFabric}

FabricInit ==
    /\ \E vl \in VanillaLists, pl \in ProfileLists :
        fabric = [pc |-> "input",
                  vanilla |-> [id |-> "1.20.4", asset_index_id |-> "12",
                               main_class |-> "net.minecraft.client.main.Main",
                               libraries |-> vl, inherits_from |-> "none"],
                  profile |-> [id |-> "fabric-loader-0.15-1.20.4",
                               main_class |-> "net.fabricmc.loader.impl.launch.knot.KnotClient",
                               libraries |-> pl, inherits_from |-> "1.20.4"],
                  merged |-> <<>>, again |-> <<>>]
    /\ AcctIdle
    /\ PollIdle
    /\ LibIdle
    /\ RuleIdle
    /\ ArgIdle
    /\ RunIdle
    /\ HarnessIdle
    /\ JavaIdle
    /\ DlIdle
    /\ CondIdle
    /\ JvmIdle
    /\ CpIdle
    /\ AssetIdle
    /\ NativeIdle
    /\ InstIdle
    /\ ForgeIdle
    /\ EnsureIdle
    /\ TwoIdle
    /\ GuiIdle

\* launch_instance_async, Fabric branch: details = merge_version_details(..)
ApplyFabric ==
    /\ fabric.pc = "input"
    /\ fabric' = [fabric EXCEPT !.pc = "merged",
                    !.merged = <<MergeVersionDetails(fabric.vanilla, fabric.profile)>>]
    /\ FabricOnly

\* The profile merged into an already merged descriptor.
ApplyFabricAgain ==
    /\ fabric.pc = "merged"
    /\ fabric' = [fabric EXCEPT !.pc = "remerged",
                    !.again = <<MergeVersionDetails(fabric.merged[1], fabric.profile)>>]
    /\ FabricOnly

FabricNext ==
    \/ ApplyFabric
    \/ ApplyFabricAgain

SpecFabric == FabricInit /\ [][FabricNext]_vars

\* Two positions of a library list hold the same group:artifact.
SameKeyAt(libs, i, j) ==
    /\ HasKey(libs[i])
    /\ HasKey(libs[j])
    /\ LibKey(libs[i]) = LibKey(libs[j])

DuplicateFree(libs) ==
    \A i, j \in DOMAIN libs : i < j => ~SameKeyAt(libs, i, j)

\* C6 (as stated): the merged library list holds no two libraries with the
\* same group:artifact, whatever the vanilla list and the profile are.
C6_NoTwoSameGroupArtifact ==
    fabric.pc = "merged" => DuplicateFree(fabric.merged[1].libraries)

\* C6 (amended): no vanilla library kept by the merge shares its
\* group:artifact with a profile library, and when neither input list repeats
\* a group:artifact the merged list repeats none.
C6_NoVanillaProfileConflict ==
    fabric.pc = "merged" =>
        LET libs == fabric.merged[1].libraries
            nV == Len(libs) - Len(fabric.profile.libraries)
        IN /\ \A i, j \in DOMAIN libs : (i <= nV /\ j > nV) => ~SameKeyAt(libs, i, j)
           /\ (DuplicateFree(fabric.vanilla.libraries)
                 /\ DuplicateFree(ConvertLibraries(fabric.profile.libraries)))
                => DuplicateFree(libs)

\* A merge that dropped a conflicting vanilla library, kept another vanilla
\* library and appended the profile's.
C6_Witness ==
    /\ fabric.pc = "merged"
    /\ Len(fabric.merged[1].libraries)
         < Len(fabric.vanilla.libraries) + Len(fabric.profile.libraries)
    /\ Len(fabric.merged[1].libraries) > Len(fabric.profile.libraries)
    /\ Len(fabric.profile.libraries) > 0

\* A profile library name introduces the group:artifact of a library.
Introduces(pname, lib) ==
    /\ Len(pname) >= 2
    /\ Len(lib.name) >= 2
    /\ pname[1] = lib.name[1]
    /\ pname[2] = lib.name[2]

\* The library list of the claim: the vanilla libraries whose group:artifact
\* no profile library introduces, then the profile's with an empty SHA-1.
ExpectedMerge(vanilla, profile) ==
    SelectSeq(vanilla.libraries, LAMBDA lib :
        \A i \in DOMAIN profile.libraries : ~Introduces(profile.libraries[i], lib))
      \o [i \in DOMAIN profile.libraries |-> [name |-> profile.libraries[i], sha1 |-> ""]]

\* C25: the merge returns the profile's main class, the vanilla libraries
\* whose group:artifact the profile does not introduce (in their order)
\* followed by all profile libraries (in profile order, empty SHA-1), every
\* other field but inherits_from as in the vanilla descriptor, and leaves
\* its inputs as they were.
C25_MergeExact ==
    [][fabric'.pc = "merged" =>
         /\ fabric'.merged[1].main_class = fabric.profile.main_class
         /\ fabric'.merged[1].libraries = ExpectedMerge(fabric.vanilla, fabric.profile)
         /\ fabric'.merged[1].id = fabric.vanilla.id
         /\ fabric'.merged[1].asset_index_id = fabric.vanilla.asset_index_id
         /\ fabric'.merged[1].inherits_from = fabric.profile.inherits_from
         /\ fabric'.vanilla = fabric.vanilla
         /\ fabric'.profile = fabric.profile]_vars

\* A merge of two vanilla libraries and two profile libraries in which one
\* vanilla library is replaced and the other stays in front.
C25_Witness ==
    /\ fabric.pc = "merged"
    /\ Len(fabric.vanilla.libraries) = 2
    /\ Len(fabric.profile.libraries) = 2
    /\ Len(fabric.merged[1].libraries) = 3
    /\ fabric.merged[1].libraries[1] \in {fabric.vanilla.libraries[1], fabric.vanilla.libraries[2]}
    /\ fabric.merged[1].libraries[3].sha1 = ""

\* C26 (as stated): merging the profile into the merged descriptor again
\* gives the same library list and main class, for every vanilla descriptor
\* and every profile.
C26_MergeIdempotent ==
    fabric.pc = "remerged" =>
        /\ fabric.again[1].libraries = fabric.merged[1].libraries
        /\ fabric.again[1].main_class = fabric.merged[1].main_class

\* Every library name of the profile has a group and an artifact part.
AllProfileKeyed(profile) == \A i \in DOMAIN profile.libraries : Len(profile.libraries[i]) >= 2

\* C26 (amended): for every vanilla descriptor and every profile whose
\* library names all have a group and an artifact part, merging the profile
\* again gives the same library list and main class.
C26_MergeIdempotentKeyed ==
    (fabric.pc = "remerged" /\ AllProfileKeyed(fabric.profile)) =>
        /\ fabric.again[1].libraries = fabric.merged[1].libraries
        /\ fabric.again[1].main_class = fabric.merged[1].main_class

\* A second merge that dropped the first merge's profile libraries and
\* appended them again behind a kept vanilla library.
C26_Witness ==
    /\ fabric.pc = "remerged"
    /\ AllProfileKeyed(fabric.profile)
    /\ Len(fabric.profile.libraries) = 2
    /\ Len(fabric.merged[1].libraries) = 3
    /\ fabric.again[1].libraries = fabric.merged[1].libraries

\* ========================================================================
\* Game arguments (src/src/core/launch/mod.rs)
\* ========================================================================
\* Longest argument template considered (tokens of minecraft_arguments, or
\* entries of arguments.game).
MaxArgs == 2

\* A token is a sequence of pieces: literal text, or a ${name} placeholder.
Lit(s) == [kind |-> "lit", text |-> s]
Ph(n) == [kind |-> "ph", text |-> n]

\* Template tokens: flags, placeholders both paths know, placeholders only
\* the modern path knows, one no path knows, and a flag=value form.
TemplateTokens ==
    { <<Lit("--username")>>, <<Ph("auth_player_name")>>,
      <<Lit("--versionType")>>, <<Ph("version_type")>>,
      <<Lit("--clientId")>>, <<Ph("clientid")>>,
      <<Lit("--userProperties")>>, <<Ph("user_properties")>>,
      <<Lit("--demo")>>,
      <<Lit("--user="), Ph("auth_player_name")>>,
      <<Ph("assets_index_name")>>, <<Ph("resolution_width")>> }

\* What the launch substitutes from: instance, descriptor, account, paths.
ArgContexts ==
    [name : {"Steve"}, version : {"1.20.4"}, asset_index_id : {"12"},
     version_type : {"release", "snapshot"}, uuid : {"uuid-1"},
     token : {"mc-token"}, game_dir : {"/inst/.minecraft"}, assets_dir : {"/data/assets"},
     width : {"1280"}, height : {"720"}]

\* parse_legacy_args: the nine replacements of the legacy path.
LegacyTable(ctx) ==
    [auth_player_name |-> ctx.name, version_name |-> ctx.version,
     game_directory |-> ctx.game_dir, assets_root |-> ctx.assets_dir,
     assets_index_name |-> ctx.version, auth_uuid |-> ctx.uuid,
     auth_access_token |-> ctx.token, user_type |-> "msa",
     version_type |-> "release"]

\* replace_placeholders: the replacements of the modern path.
ModernTable(ctx) ==
    [auth_player_name |-> ctx.name, version_name |-> ctx.version,
     game_directory |-> ctx.game_dir, assets_root |-> ctx.assets_dir,
     assets_index_name |-> ctx.asset_index_id, auth_uuid |-> ctx.uuid,
     auth_access_token |-> ctx.token, user_type |-> "msa",
     version_type |-> ctx.version_type, clientid |-> "", auth_xuid |-> "",
     resolution_width |-> "854", resolution_height |-> "480",
     quickPlayPath |-> "", quickPlaySingleplayer |-> "",
     quickPlayMultiplayer |-> "", quickPlayRealms |-> ""]

\* str::replace for every entry of the table; empty literal pieces vanish
\* from the resulting string.
ReplaceAll(tok, table) ==
    SelectSeq([i \in DOMAIN tok |->
                  IF tok[i].kind = "ph" /\ tok[i].text \in DOMAIN table
                  THEN Lit(table[tok[i].text])
                  ELSE tok[i]],
              LAMBDA p : ~(p.kind = "lit" /\ p.text = ""))

\* arg.contains("${")
ContainsPlaceholder(tok) == \E i \in DOMAIN tok : tok[i].kind = "ph"

\* arg.is_empty()
IsEmptyArg(tok) == tok = <<>>

\* arg == "--demo"
IsDemo(tok) == tok = <<Lit("--demo")>>

\* arg.starts_with("--") && !arg.contains('=')
IsBareFlag(tok) ==
    /\ Len(tok) >= 1
    /\ tok[1].kind = "lit"
    /\ tok[1].text \in {"--username", "--versionType", "--clientId",
                        "--userProperties", "--demo"}

\* A filter that drops the demo, unresolved and empty tokens one by one.
FilterArgsTokenwise(raw, i, skip_next) ==
    SelectSeq(raw, LAMBDA t : ~IsDemo(t) /\ ~ContainsPlaceholder(t) /\ ~IsEmptyArg(t))

\* The filtering loop of build_game_args over raw_args, from index i.
RECURSIVE FilterArgs(_, _, _)
FilterArgs(raw, i, skip_next) ==
    IF i > Len(raw) THEN <<>>
    ELSE IF skip_next THEN FilterArgs(raw, i + 1, FALSE)
    ELSE IF IsDemo(raw[i]) THEN FilterArgs(raw, i + 1, FALSE)
    ELSE IF ContainsPlaceholder(raw[i]) THEN FilterArgs(raw, i + 1, FALSE)
    ELSE IF /\ IsBareFlag(raw[i])
            /\ i + 1 <= Len(raw)
            /\ (IsEmptyArg(raw[i + 1]) \/ ContainsPlaceholder(raw[i + 1]))
         THEN FilterArgs(raw, i + 1, TRUE)
    ELSE IF IsEmptyArg(raw[i]) THEN FilterArgs(raw, i + 1, FALSE)
    ELSE <<raw[i]>> \o FilterArgs(raw, i + 1, FALSE)

\* An entry of arguments.game: Simple(s), or Conditional { rules, value }.
Simple(tok) == [simple |-> TRUE, rules |-> <<>>, value |-> <<tok>>]
Conditional(rs, toks) == [simple |-> FALSE, rules |-> rs, value |-> toks]

\* Rules of conditional game arguments: a feature rule, an os rule.
ArgRules ==
    { [action |-> "allow", name |-> "none", arch |-> "none", features |-> TRUE],
      [action |-> "allow", name |-> "osx", arch |-> "none", features |-> FALSE] }

ModernEntries ==
    {Simple(t) : t \in TemplateTokens}
      \cup {Conditional(<<r>>, v) : r \in ArgRules,
              v \in {<<<<Lit("--demo")>>>>,
                     <<<<Lit("--username")>>, <<Ph("auth_player_name")>>>>}}

\* Whether a Conditional's value is pushed.
ConditionalIncluded(e, host) ==
    /\ ~(\E i \in DOMAIN e.rules : e.rules[i].features)
    /\ \A i \in DOMAIN e.rules : IsAllowed(e.rules[i], host)

\* raw_args: every pushed string, substituted, in template order.
RECURSIVE RawArgs(_, _, _)
RawArgs(entries, ctx, host) ==
    IF entries = <<>> THEN <<>>
    ELSE LET e == Head(entries)
             pushed == IF e.simple \/ ConditionalIncluded(e, host)
                       THEN [i \in DOMAIN e.value |-> ReplaceAll(e.value[i], ModernTable(ctx))]
                       ELSE <<>>
         IN pushed \o RawArgs(Tail(entries), ctx, host)

\* parse_legacy_args: split_whitespace().map(replace ..).collect()
ParseLegacyArgs(toks, ctx) == [i \in DOMAIN toks |-> ReplaceAll(toks[i], LegacyTable(ctx))]

\* build_game_args
BuildGameArgs(d, ctx, host) ==
    IF d.legacy THEN ParseLegacyArgs(d.template, ctx)
    ELSE FilterArgs(RawArgs(d.template, ctx, host), 1, FALSE)

LegacyTemplates == UNION {[1..n -> TemplateTokens] : n \in 0..MaxArgs}
ModernTemplates == UNION {[1..n -> ModernEntries] : n \in 0..MaxArgs}

ArgDescriptors ==
    {[legacy |-> TRUE, template |-> t] : t \in LegacyTemplates}
      \cup {[legacy |-> FALSE, template |-> t] : t \in ModernTemplates}

ArgInit ==
    /\ \E d \in ArgDescriptors, c \in ArgContexts,
          h \in {[os |-> "linux", arch |-> "x64"], [os |-> "osx", arch |-> "arm64"]} :
        gargs = [pc |-> "input", details |-> d, ctx |-> c, host |-> h, argv |-> <<>>]
    /\ AcctIdle
    /\ PollIdle
    /\ LibIdle
    /\ RuleIdle
    /\ FabricIdle
    /\ RunIdle
    /\ HarnessIdle
    /\ JavaIdle
    /\ DlIdle
    /\ CondIdle
    /\ JvmIdle
    /\ CpIdle
    /\ AssetIdle
    /\ NativeIdle
    /\ InstIdle
    /\ ForgeIdle
    /\ EnsureIdle
    /\ TwoIdle
    /\ GuiIdle

\* Launcher::launch calls build_game_args for the descriptor.
BuildArgs ==
    /\ gargs.pc = "input"
    /\ gargs' = [gargs EXCEPT !.pc = "built",
                    !.argv = BuildGameArgs(gargs.details, gargs.ctx, gargs.host)]
    /\ ArgOnly

ArgNext == BuildArgs

SpecGameArgs == ArgInit /\ [][ArgNext]_vars

\* C7: for every descriptor, legacy or modern, the argument vector that
\* build_game_args returns holds no token with an unresolved ${name}.
C7_NoUnresolvedPlaceholder ==
    gargs.pc = "built" =>
        \A i \in DOMAIN gargs.argv : ~ContainsPlaceholder(gargs.argv[i])

\* The tokens of raw at the positions K, in order.
RECURSIVE Restrict(_, _, _)
Restrict(raw, K, i) ==
    IF i > Len(raw) THEN <<>>
    ELSE (IF i \in K THEN <<raw[i]>> ELSE <<>>) \o Restrict(raw, K, i + 1)

\* C33: for a modern descriptor the argv is what is left of the substituted
\* tokens at some set of kept positions; it holds no --demo, no empty token
\* and no token with an unresolved placeholder; and a --flag without '='
\* that stands immediately before an empty or unresolved token is not
\* among the kept positions.
C33_ModernFilterSubsequence ==
    (gargs.pc = "built" /\ ~gargs.details.legacy) =>
        LET raw == RawArgs(gargs.details.template, gargs.ctx, gargs.host)
        IN /\ \A i \in DOMAIN gargs.argv :
                /\ gargs.argv[i] # <<Lit("--demo")>>
                /\ gargs.argv[i] # <<>>
                /\ \A k \in DOMAIN gargs.argv[i] : gargs.argv[i][k].kind # "ph"
           /\ \E K \in SUBSET DOMAIN raw :
                /\ gargs.argv = Restrict(raw, K, 1)
                /\ \A i \in DOMAIN raw :
                    (/\ i > 1
                     /\ (raw[i] = <<>> \/ \E k \in DOMAIN raw[i] : raw[i][k].kind = "ph")
                     /\ IsBareFlag(raw[i - 1]))
                    => (i - 1 \notin K /\ i \notin K)

\* --clientId and its value, which is substituted to the empty string: both
\* are dropped.
C33_Witness ==
    /\ gargs.pc = "built"
    /\ ~gargs.details.legacy
    /\ Len(gargs.details.template) = 2
    /\ gargs.details.template[1] = Simple(<<Lit("--clientId")>>)
    /\ gargs.details.template[2] = Simple(<<Ph("clientid")>>)
    /\ gargs.argv = <<>>

\* The placeholder table of the launch section, for the placeholders the
\* claim names: descriptor.asset_index.id, descriptor.type, instance dims.
PlaceholderTable(ctx) ==
    [assets_index_name |-> ctx.asset_index_id, version_type |-> ctx.version_type,
     resolution_width |-> ctx.width, resolution_height |-> ctx.height]

\* The one token of a one-token template, legacy or modern.
OnlyToken(d) == IF d.legacy THEN d.template[1] ELSE d.template[1].value[1]

\* C24: on the legacy and on the modern path alike, a template that is one
\* of the placeholders assets_index_name, version_type, resolution_width or
\* resolution_height is built into the one value the placeholder table
\* gives: the descriptor's asset index id, the descriptor's type, the
\* instance's configured dimensions.
C24_PlaceholderTableOnBothPaths ==
    (/\ gargs.pc = "built"
     /\ Len(gargs.details.template) = 1
     /\ (gargs.details.legacy \/ gargs.details.template[1].simple)
     /\ Len(OnlyToken(gargs.details)) = 1
     /\ OnlyToken(gargs.details)[1].kind = "ph"
     /\ OnlyToken(gargs.details)[1].text \in DOMAIN PlaceholderTable(gargs.ctx))
        => gargs.argv =
             << <<Lit(PlaceholderTable(gargs.ctx)[OnlyToken(gargs.details)[1].text])>> >>

\* ========================================================================
\* Launch orchestrator (src/src/core/launch/runner.rs)
\* ========================================================================
\* Number of libraries of the descriptor and of objects of the asset index.
NumLibs == 2
NumAssets == 2
\* const CONCURRENT_DOWNLOADS: usize = 16 (asset downloads).
AssetConcurrency == 16

Libs == 1..NumLibs
Assets == 1..NumAssets
\* instance.info.loader; Quilt and NeoForge take neither overlay branch and
\* run as Vanilla does.
Loaders == {"Vanilla", "Fabric", "Forge"}

\* The descriptors under launch: every library carries a SHA-1, or the last
\* one carries an empty SHA-1 (as a library converted from a Fabric profile
\* does); every object of the asset index has a positive size, or the last
\* one has size 0.
EmptySha1Sets == {{}, {NumLibs}}
ZeroSizeSets == {{}, {NumAssets}}

\* !artifact_sha1.is_empty()
LibSha1NonEmpty(r, a) == a \notin r.emptySha1
\* size > 0
AssetSizePositive(r, o) == o \notin r.zeroSize

\* The stages of launch_instance_async in program order.
StageOrder ==
    <<"FetchManifest", "ResolveVersion", "FetchDescriptor", "Overlay",
      "DownloadLibraries", "FetchAssetIndex", "DownloadAssets",
      "DownloadClientJar", "ExtractNatives", "BuildClasspath", "EnsureJava",
      "Launch">>

\* An order that extracts natives before the libraries are downloaded.
NativesEarlyOrder ==
    <<"FetchManifest", "ResolveVersion", "FetchDescriptor", "Overlay",
      "ExtractNatives", "DownloadLibraries", "FetchAssetIndex", "DownloadAssets",
      "DownloadClientJar", "BuildClasspath", "EnsureJava", "Launch">>

\* if instance.info.loader == ModLoader::Fabric { .. } / == ModLoader::Forge { .. }
HasOverlay(loader) == loader \in {"Fabric", "Forge"}

\* The statement that runs after stage s of the given order returned Ok; the
\* 2-second sleep follows the spawn.
Successor(order, s, loader) ==
    LET i == CHOOSE k \in DOMAIN order : order[k] = s
        j == IF i < Len(order) /\ order[i + 1] = "Overlay" /\ ~HasOverlay(loader)
             THEN i + 2 ELSE i + 1
    IN IF j > Len(order) THEN "Sleep" ELSE order[j]

NextStageNativesEarly(s, loader) == Successor(NativesEarlyOrder, s, loader)

NextStage(s, loader) == Successor(StageOrder, s, loader)

\* Entering a stage, leaving it with Ok, leaving it through `?` or bail!.
Enter(r, s) == [r EXCEPT !.trace = Append(@, s)]
Advance(r, s) == [r EXCEPT !.pc = NextStage(s, r.loader)]
Abort(r, s) == [r EXCEPT !.pc = "Done", !.result = "Err", !.failedAt = s]
Outcome(r, s, ok) == IF ok THEN Advance(Enter(r, s), s) ELSE Abort(Enter(r, s), s)

\* The job slots of a download_all: not dispatched, or a job and its result.
NoJobs(S) == [x \in S |-> "none"]

RunInit ==
    /\ \E ld \in Loaders, lf \in [Libs -> {"absent", "good"}],
          af \in [Assets -> {"absent", "good"}], jf \in {"absent", "good"},
          es \in EmptySha1Sets, zs \in ZeroSizeSets :
        run = [pc |-> "FetchManifest", loader |-> ld, trace |-> <<>>,
               emptySha1 |-> es, zeroSize |-> zs,
               libFiles |-> lf, assetFiles |-> af, jar |-> jf,
               libJob |-> NoJobs(Libs), libResult |-> "none",
               assetJob |-> NoJobs(Assets), assetResult |-> "none",
               child |-> "none", slept |-> FALSE, polls |-> 0, atPoll |-> "none",
               result |-> "none", code |-> "none", failedAt |-> "none",
               cli |-> "none"]
    /\ AcctIdle
    /\ PollIdle
    /\ LibIdle
    /\ RuleIdle
    /\ FabricIdle
    /\ ArgIdle
    /\ HarnessIdle
    /\ JavaIdle
    /\ DlIdle
    /\ CondIdle
    /\ JvmIdle
    /\ CpIdle
    /\ AssetIdle
    /\ NativeIdle
    /\ InstIdle
    /\ ForgeIdle
    /\ EnsureIdle
    /\ TwoIdle
    /\ GuiIdle

\* version::fetch_manifest().await?
FetchManifest ==
    /\ run.pc = "FetchManifest"
    /\ \E ok \in BOOLEAN : run' = Outcome(run, "FetchManifest", ok)
    /\ RunOnly

\* version::get_version_info(..).context("Version .. not found")?
ResolveVersion ==
    /\ run.pc = "ResolveVersion"
    /\ \E ok \in BOOLEAN : run' = Outcome(run, "ResolveVersion", ok)
    /\ RunOnly

\* version::fetch_version_details(version_info).await?
FetchDescriptor ==
    /\ run.pc = "FetchDescriptor"
    /\ \E ok \in BOOLEAN : run' = Outcome(run, "FetchDescriptor", ok)
    /\ RunOnly

\* The Fabric branch (get_latest_loader, get_profile, merge) or the Forge
\* branch (ensure_java, install, processors): every fallible call ends in `?`.
ApplyOverlay ==
    /\ run.pc = "Overlay"
    /\ \E ok \in BOOLEAN : run' = Outcome(run, "Overlay", ok)
    /\ RunOnly

\* get_missing_libraries / get_missing_assets with skip_verification = true:
\* the paths that do not exist.
RunMissing(files) == {x \in DOMAIN files : files[x] = "absent"}

Fetching(jobs) == {x \in DOMAIN jobs : jobs[x] = "fetching"}
AllFinished(jobs) == \A x \in DOMAIN jobs : jobs[x] \in {"none", "Ok", "Err"}
Dispatched(S) == [x \in DOMAIN S |-> IF S[x] = "absent" THEN "queued" ELSE "none"]

\* LibraryManager::download_all: for result in download_results { result?; } Ok(())
LibDownloadResult(jobs) ==
    IF \E x \in DOMAIN jobs : jobs[x] = "Err" THEN "Err" ELSE "Ok"

\* A download_all that propagates a job's error.
AssetDownloadResultStrict(jobs) ==
    IF \E x \in DOMAIN jobs : jobs[x] = "Err" THEN "Err" ELSE "Ok"

\* AssetManager::download_all: each Err is logged with warn!; Ok(())
AssetDownloadResult(jobs) == "Ok"

\* if size > 0 { if let Ok(valid) = verify_sha1(..) { if !valid { remove; Err } } }
AssetVerifyOutcome(sized, content) ==
    IF sized /\ VerifySha1(content) = "mismatch" THEN "remove" ELSE "ok"

\* lib_manager.download_all(&details.libraries, true, ..): total == 0 returns Ok.
LibDownloadAll ==
    /\ run.pc = "DownloadLibraries"
    /\ LET r == Enter(run, "DownloadLibraries")
       IN IF RunMissing(run.libFiles) = {}
          THEN run' = Advance([r EXCEPT !.libResult = "Ok"], "DownloadLibraries")
          ELSE run' = [r EXCEPT !.pc = "LibraryJobs",
                                !.libJob = Dispatched(run.libFiles)]
    /\ RunOnly

\* buffer_unordered(8) starts the next job of the stream: reqwest::get(..).await
LibJobStart(a) ==
    /\ run.pc = "LibraryJobs"
    /\ run.libJob[a] = "queued"
    /\ \A b \in Libs : b < a => run.libJob[b] # "queued"
    /\ Cardinality(Fetching(run.libJob)) < LibConcurrency
    /\ run' = [run EXCEPT !.libJob[a] = "fetching"]
    /\ RunOnly

\* The rest of a library job: the request fails, or the bytes are written and
\* verified, and removed on a mismatch.
LibJobFinish(a) ==
    /\ run.pc = "LibraryJobs"
    /\ run.libJob[a] = "fetching"
    /\ \E out \in {"transport", "good", "bad"} :
        IF out = "transport"
        THEN run' = [run EXCEPT !.libJob[a] = "Err"]
        ELSE IF VerifyOutcome(LibSha1NonEmpty(run, a), out) = "ok"
        THEN run' = [run EXCEPT !.libJob[a] = "Ok", !.libFiles[a] = out]
        ELSE run' = [run EXCEPT !.libJob[a] = "Err", !.libFiles[a] = "absent"]
    /\ RunOnly

\* collect().await is over: download_all returns, and `.await?` propagates.
LibDownloadReturn ==
    /\ run.pc = "LibraryJobs"
    /\ AllFinished(run.libJob)
    /\ LET res == LibDownloadResult(run.libJob)
           r == [run EXCEPT !.libResult = res]
       IN run' = IF res = "Ok" THEN Advance(r, "DownloadLibraries")
                 ELSE Abort(r, "DownloadLibraries")
    /\ RunOnly

\* asset_manager.download_index(&details.asset_index).await?
FetchAssetIndex ==
    /\ run.pc = "FetchAssetIndex"
    /\ \E ok \in BOOLEAN : run' = Outcome(run, "FetchAssetIndex", ok)
    /\ RunOnly

\* asset_manager.download_all(&asset_index, true, ..): total == 0 returns Ok.
AssetDownloadAll ==
    /\ run.pc = "DownloadAssets"
    /\ LET r == Enter(run, "DownloadAssets")
       IN IF RunMissing(run.assetFiles) = {}
          THEN run' = Advance([r EXCEPT !.assetResult = "Ok"], "DownloadAssets")
          ELSE run' = [r EXCEPT !.pc = "AssetJobs",
                                !.assetJob = Dispatched(run.assetFiles)]
    /\ RunOnly

\* buffer_unordered(16) starts the next job of the stream.
AssetJobStart(o) ==
    /\ run.pc = "AssetJobs"
    /\ run.assetJob[o] = "queued"
    /\ \A b \in Assets : b < o => run.assetJob[b] # "queued"
    /\ Cardinality(Fetching(run.assetJob)) < AssetConcurrency
    /\ run' = [run EXCEPT !.assetJob[o] = "fetching"]
    /\ RunOnly

\* The rest of an asset job.
AssetJobFinish(o) ==
    /\ run.pc = "AssetJobs"
    /\ run.assetJob[o] = "fetching"
    /\ \E out \in {"transport", "good", "bad"} :
        IF out = "transport"
        THEN run' = [run EXCEPT !.assetJob[o] = "Err"]
        ELSE IF AssetVerifyOutcome(AssetSizePositive(run, o), out) = "ok"
        THEN run' = [run EXCEPT !.assetJob[o] = "Ok", !.assetFiles[o] = out]
        ELSE run' = [run EXCEPT !.assetJob[o] = "Err", !.assetFiles[o] = "absent"]
    /\ RunOnly

\* download_all returns; `.await?` propagates an Err if there is one.
AssetDownloadReturn ==
    /\ run.pc = "AssetJobs"
    /\ AllFinished(run.assetJob)
    /\ LET res == AssetDownloadResult(run.assetJob)
           r == [run EXCEPT !.assetResult = res]
       IN run' = IF res = "Ok" THEN Advance(r, "DownloadAssets")
                 ELSE Abort(r, "DownloadAssets")
    /\ RunOnly

\* launcher.ensure_version_jar(&details).await?: an existing jar is returned
\* as it is, else the client download is written without a check.
EnsureVersionJar ==
    /\ run.pc = "DownloadClientJar"
    /\ LET r == Enter(run, "DownloadClientJar")
       IN IF run.jar # "absent"
          THEN run' = Advance(r, "DownloadClientJar")
          ELSE \E out \in {"fail", "good", "bad"} :
                 run' = IF out = "fail" THEN Abort(r, "DownloadClientJar")
                        ELSE Advance([r EXCEPT !.jar = out], "DownloadClientJar")
    /\ RunOnly

\* lib_manager.extract_natives(&details.libraries, &natives_dir)?
RunExtractNatives ==
    /\ run.pc = "ExtractNatives"
    /\ \E ok \in BOOLEAN : run' = Outcome(run, "ExtractNatives", ok)
    /\ RunOnly

\* lib_manager.build_classpath(..): returns a String, cannot fail.
BuildClasspath ==
    /\ run.pc = "BuildClasspath"
    /\ run' = Outcome(run, "BuildClasspath", TRUE)
    /\ RunOnly

\* java_manager.ensure_java(required_java, ..).await?
EnsureJava ==
    /\ run.pc = "EnsureJava"
    /\ \E ok \in BOOLEAN : run' = Outcome(run, "EnsureJava", ok)
    /\ RunOnly

\* launcher.launch(..)?: create_dir_all and cmd.spawn() can fail; Ok(child).
LaunchSpawn ==
    /\ run.pc = "Launch"
    /\ \E ok \in BOOLEAN :
        run' = IF ok
               THEN [Outcome(run, "Launch", TRUE) EXCEPT !.child = "running"]
               ELSE Outcome(run, "Launch", FALSE)
    /\ RunOnly

\* The exit statuses of the child: status.code() is Some(code), or None when
\* a signal ended it.
ExitStatuses == {"Some(0)", "Some(1)", "None"}

\* The child process ends on its own at any time after the spawn.
ChildExits ==
    /\ run.child = "running"
    /\ \E st \in ExitStatuses : run' = [run EXCEPT !.child = st]
    /\ RunOnly

\* std::thread::sleep(Duration::from_secs(2))
Sleep ==
    /\ run.pc = "Sleep"
    /\ run' = [run EXCEPT !.pc = "TryWait", !.slept = TRUE]
    /\ RunOnly

\* A poll that reports a child that has exited as a failure.
TryWaitResultBail(child, pollOk) ==
    IF ~pollOk \/ child # "running" THEN [result |-> "Err", code |-> "none"]
    ELSE [result |-> "Success", code |-> "none"]

\* match child.try_wait(): Ok(Some(status)), Ok(None), Err(e)
TryWaitResult(child, pollOk) ==
    IF ~pollOk THEN [result |-> "Err", code |-> "none"]
    ELSE IF child = "running" THEN [result |-> "Success", code |-> "none"]
    ELSE [result |-> "EarlyExit", code |-> child]

\* child.try_wait() does not block: it reports the child's state now, or fails.
TryWait ==
    /\ run.pc = "TryWait"
    /\ \E pollOk \in BOOLEAN :
        LET res == TryWaitResult(run.child, pollOk)
        IN run' = [run EXCEPT !.pc = "Done", !.polls = @ + 1,
                              !.atPoll = run.child,
                              !.result = res.result, !.code = res.code,
                              !.failedAt = IF pollOk THEN @ ELSE "TryWait"]
    /\ RunOnly

\* cli run_instance: `launch_instance_async(..).await?` propagates an Err;
\* EarlyExit prints and falls through to Ok(()).
CliReturn ==
    /\ run.pc = "Done"
    /\ run.cli = "none"
    /\ run.result \in {"Err", "EarlyExit"}
    /\ run' = [run EXCEPT !.cli = IF run.result = "Err" THEN "Err" ELSE "Ok"]
    /\ RunOnly

\* cli run_instance on Success(child): child.wait()? blocks until the child ends.
CliWait ==
    /\ run.pc = "Done"
    /\ run.cli = "none"
    /\ run.result = "Success"
    /\ run.child # "running"
    /\ \E waitOk \in BOOLEAN : run' = [run EXCEPT !.cli = IF waitOk THEN "Ok" ELSE "Err"]
    /\ RunOnly

RunNext ==
    \/ FetchManifest
    \/ ResolveVersion
    \/ FetchDescriptor
    \/ ApplyOverlay
    \/ LibDownloadAll
    \/ \E a \in Libs : LibJobStart(a)
    \/ \E a \in Libs : LibJobFinish(a)
    \/ LibDownloadReturn
    \/ FetchAssetIndex
    \/ AssetDownloadAll
    \/ \E o \in Assets : AssetJobStart(o)
    \/ \E o \in Assets : AssetJobFinish(o)
    \/ AssetDownloadReturn
    \/ EnsureVersionJar
    \/ RunExtractNatives
    \/ BuildClasspath
    \/ EnsureJava
    \/ LaunchSpawn
    \/ ChildExits
    \/ Sleep
    \/ TryWait
    \/ CliReturn
    \/ CliWait

SpecLaunch == RunInit /\ [][RunNext]_vars

InTrace(s) == \E i \in DOMAIN run.trace : run.trace[i] = s

\* C4: library download failures are fatal and asset download failures are
\* tolerated: the library download_all returns Err iff a dispatched job
\* failed, and the launch then stops before the spawn; the asset download_all
\* returns Ok whatever jobs failed, and the launch goes on to the client jar.
C4_LibraryFatalAssetTolerated ==
    /\ run.libResult # "none" =>
        /\ run.libResult = "Err" <=> (\E a \in Libs : run.libJob[a] = "Err")
        /\ run.libResult = "Err" =>
            /\ run.pc = "Done"
            /\ run.result = "Err"
            /\ run.failedAt = "DownloadLibraries"
            /\ run.child = "none"
            /\ ~InTrace("FetchAssetIndex")
            /\ ~InTrace("Launch")
    /\ run.assetResult # "none" =>
        /\ run.assetResult = "Ok"
        /\ run.failedAt # "DownloadAssets"
        /\ run.pc = "DownloadClientJar" \/ InTrace("DownloadClientJar")

\* A launch whose library jobs all succeeded, with one failed and one
\* successful asset job, that went on to the client jar.
C4_Witness ==
    /\ \E a \in Libs : run.libJob[a] = "Ok"
    /\ \E o \in Assets : run.assetJob[o] = "Err"
    /\ \E o \in Assets : run.assetJob[o] = "Ok"
    /\ run.assetResult = "Ok"
    /\ InTrace("DownloadClientJar")

\* The stage order the claim gives, the overlay present for Fabric and Forge.
C9_Order ==
    IF HasOverlay(run.loader)
    THEN <<"FetchManifest", "ResolveVersion", "FetchDescriptor", "Overlay",
           "DownloadLibraries", "FetchAssetIndex", "DownloadAssets",
           "DownloadClientJar", "ExtractNatives", "BuildClasspath",
           "EnsureJava", "Launch">>
    ELSE <<"FetchManifest", "ResolveVersion", "FetchDescriptor",
           "DownloadLibraries", "FetchAssetIndex", "DownloadAssets",
           "DownloadClientJar", "ExtractNatives", "BuildClasspath",
           "EnsureJava", "Launch">>

C9_Stages == {C9_Order[i] : i \in DOMAIN C9_Order}

\* C9: the stages run in exactly the given order, each after its predecessor
\* succeeded (natives extraction after a successful library download); after
\* a stage failed no later stage runs and no child process is spawned.
C9_StagesInOrder ==
    /\ Len(run.trace) <= Len(C9_Order)
    /\ \A i \in DOMAIN run.trace : run.trace[i] = C9_Order[i]
    /\ run.pc \in C9_Stages => run.pc = C9_Order[Len(run.trace) + 1]
    /\ InTrace("ExtractNatives") =>
        /\ run.libResult = "Ok"
        /\ \A a \in Libs : run.libJob[a] \in {"none", "Ok"}
    /\ (run.result = "Err" /\ run.failedAt # "TryWait") =>
        /\ run.pc = "Done"
        /\ run.trace[Len(run.trace)] = run.failedAt
        /\ run.child = "none"
    /\ run.child # "none" =>
        /\ run.trace = C9_Order
        /\ run.failedAt \in {"none", "TryWait"}

\* A Fabric launch that ran all twelve stages and spawned the game.
C9_Witness ==
    /\ run.loader = "Fabric"
    /\ run.trace = C9_Order
    /\ run.child # "none"
    /\ \E a \in Libs : run.libJob[a] = "Ok"

\* C10 (as stated): after the spawn the child is polled once, after the
\* 2-second wait and without blocking; the result is Ok(EarlyExit(code)) iff
\* the child had exited at the poll, otherwise Ok(Success), and a child that
\* exited early is never reported as an Err.
C10_EarlyExitIffExited ==
    run.polls > 0 =>
        /\ run.polls = 1
        /\ run.slept
        /\ run.result = "EarlyExit" <=> run.atPoll \in ExitStatuses
        /\ run.atPoll \notin ExitStatuses => run.result = "Success"
        /\ run.result = "EarlyExit" => run.code = run.atPoll

\* C10 (amended): the single poll after the wait, when it succeeds, gives
\* Ok(EarlyExit(code)) iff the child had exited and Ok(Success) otherwise; the
\* launch returns Err exactly when the poll itself fails; the CLI turns an
\* EarlyExit into Ok(()).
C10_PollOutcome ==
    run.polls > 0 =>
        /\ run.polls = 1
        /\ run.slept
        /\ run.result = "Err" <=> run.failedAt = "TryWait"
        /\ run.failedAt # "TryWait" =>
            /\ run.result = "EarlyExit" <=> run.atPoll \in ExitStatuses
            /\ run.result = "Success" <=> run.atPoll = "running"
            /\ run.result = "EarlyExit" => run.code = run.atPoll
        /\ (run.result = "EarlyExit" /\ run.cli # "none") => run.cli = "Ok"

\* The game exited with code 1 within the two seconds: EarlyExit(Some(1)),
\* and the CLI returned Ok.
C10_Witness ==
    /\ run.polls = 1
    /\ run.atPoll = "Some(1)"
    /\ run.result = "EarlyExit"
    /\ run.code = "Some(1)"
    /\ run.cli = "Ok"

\* ========================================================================
\* The parallel download harness: stream::iter(missing).map(job)
\*   .buffer_unordered(CONCURRENT_DOWNLOADS).collect().await
\* (src/src/core/library/mod.rs, src/src/core/asset/mod.rs)
\* ========================================================================
\* The missing list holds up to MaxExtra entries more than the concurrency.
MaxExtra == 1

HarnessKinds == {"library", "asset"}

\* const CONCURRENT_DOWNLOADS of the two download_all functions.
HarnessCap(kind) == IF kind = "library" THEN LibConcurrency ELSE AssetConcurrency

\* A buffer that admits one job more than its limit.
CanDispatchOffByOne(inflight, cap) == inflight <= cap

\* buffer_unordered(n) pulls the next job of the stream while fewer than n
\* of its futures are unfinished.
CanDispatch(inflight, cap) == inflight < cap

HarnessInit ==
    /\ \E k \in HarnessKinds :
        \E n \in 0..(HarnessCap(k) + MaxExtra) :
            bu = [kind |-> k, total |-> n, next |-> 1, inflight |-> {},
                  dispatches |-> [i \in 1..n |-> 0], pc |-> "scan"]
    /\ AcctIdle
    /\ PollIdle
    /\ LibIdle
    /\ RuleIdle
    /\ FabricIdle
    /\ ArgIdle
    /\ RunIdle
    /\ JavaIdle
    /\ DlIdle
    /\ CondIdle
    /\ JvmIdle
    /\ CpIdle
    /\ AssetIdle
    /\ NativeIdle
    /\ InstIdle
    /\ ForgeIdle
    /\ EnsureIdle
    /\ TwoIdle
    /\ GuiIdle

\* let total = missing.len(); if total == 0 { return Ok(()) }
HarnessStart ==
    /\ bu.pc = "scan"
    /\ bu' = [bu EXCEPT !.pc = IF bu.total = 0 THEN "returned" ELSE "collect"]
    /\ HarnessOnly

\* The stream yields entry `next` of the missing list and its future joins
\* the futures in progress.
HarnessDispatch ==
    /\ bu.pc = "collect"
    /\ bu.next <= bu.total
    /\ CanDispatch(Cardinality(bu.inflight), HarnessCap(bu.kind))
    /\ bu' = [bu EXCEPT !.next = @ + 1,
                        !.inflight = @ \cup {bu.next},
                        !.dispatches[bu.next] = @ + 1]
    /\ HarnessOnly

\* One of the futures in progress completes (Ok or Err), in any order.
HarnessJobDone(i) ==
    /\ bu.pc = "collect"
    /\ i \in bu.inflight
    /\ bu' = [bu EXCEPT !.inflight = @ \ {i}]
    /\ HarnessOnly

\* collect() ends when the stream is exhausted and no future is in progress.
HarnessReturn ==
    /\ bu.pc = "collect"
    /\ bu.next > bu.total
    /\ bu.inflight = {}
    /\ bu' = [bu EXCEPT !.pc = "returned"]
    /\ HarnessOnly

HarnessNext ==
    \/ HarnessStart
    \/ HarnessDispatch
    \/ \E i \in 1..(AssetConcurrency + MaxExtra) : HarnessJobDone(i)
    \/ HarnessReturn

SpecHarness == HarnessInit /\ [][HarnessNext]_vars

ChainEnvs ==
    [token : BOOLEAN, xbox_live : {"ok", "fail", "no_xui"}, xsts : BOOLEAN,
     minecraft_auth : BOOLEAN, profile : BOOLEAN]

\* The Microsoft profiles that log in here, and what a chain can return.
LoginProfiles == {1, 2}

LoginResults == {r \in ChainResults : r.id \in LoginProfiles}

\* A chain that goes on to XSTS without a user hash.
ChainSkipsUserHash(first, env) ==
    IF ~env.token
    THEN [ok |-> FALSE, contacted |-> <<first>>, failed |-> first]
    ELSE IF env.xbox_live = "fail"
    THEN [ok |-> FALSE, contacted |-> <<first, "xbox_live">>, failed |-> "xbox_live"]
    ELSE IF ~env.xsts \/ env.xbox_live = "no_xui"
    THEN [ok |-> FALSE, contacted |-> <<first, "xbox_live", "xsts">>,
          failed |-> IF env.xbox_live = "no_xui" THEN "user_hash" ELSE "xsts"]
    ELSE IF ~env.minecraft_auth
    THEN [ok |-> FALSE, contacted |-> <<first, "xbox_live", "xsts", "minecraft_auth">>,
          failed |-> "minecraft_auth"]
    ELSE IF ~env.profile
    THEN [ok |-> FALSE,
          contacted |-> <<first, "xbox_live", "xsts", "minecraft_auth", "profile">>,
          failed |-> "profile"]
    ELSE [ok |-> TRUE,
          contacted |-> <<first, "xbox_live", "xsts", "minecraft_auth", "profile">>,
          failed |-> "none"]

\* authenticate / refresh_account: the first call (poll_for_token or
\* refresh_token), xbox_live_auth, the user hash from xui.first(), xsts_auth,
\* minecraft_auth, get_profile; each `?` returns at the first failure.
Chain(first, env) ==
    IF ~env.token
    THEN [ok |-> FALSE, contacted |-> <<first>>, failed |-> first]
    ELSE IF env.xbox_live = "fail"
    THEN [ok |-> FALSE, contacted |-> <<first, "xbox_live">>, failed |-> "xbox_live"]
    ELSE IF env.xbox_live = "no_xui"
    THEN [ok |-> FALSE, contacted |-> <<first, "xbox_live">>, failed |-> "user_hash"]
    ELSE IF ~env.xsts
    THEN [ok |-> FALSE, contacted |-> <<first, "xbox_live", "xsts">>, failed |-> "xsts"]
    ELSE IF ~env.minecraft_auth
    THEN [ok |-> FALSE, contacted |-> <<first, "xbox_live", "xsts", "minecraft_auth">>,
          failed |-> "minecraft_auth"]
    ELSE IF ~env.profile
    THEN [ok |-> FALSE,
          contacted |-> <<first, "xbox_live", "xsts", "minecraft_auth", "profile">>,
          failed |-> "profile"]
    ELSE [ok |-> TRUE,
          contacted |-> <<first, "xbox_live", "xsts", "minecraft_auth", "profile">>,
          failed |-> "none"]

\* The chain's result and the keychain write's outcome are drawn only when
\* the chain gets that far.
NoResult == [id |-> None, ms_refresh_token |-> "", mc_access_token |-> ""]

ResultsOf(c) == IF c.ok THEN LoginResults ELSE {NoResult}

SavesOf(c) == IF c.ok THEN BOOLEAN ELSE {TRUE}

\* What a call leaves to its caller: the operation, Ok or Err, the endpoints
\* its chain contacted, the step that failed, and the account it returned
\* (a sequence of at most one account).
ChainRet(op, result, contacted, failed, account) ==
    [op |-> op, result |-> result, contacted |-> contacted, failed |-> failed,
     account |-> account]

ActiveAccountOf(d) ==
    IF HasActiveAccount(d)
    THEN <<d.accounts[FindIndex(d.accounts, d.active_uuid)]>>
    ELSE <<>>

LoginInit ==
    /\ store = NoEntry
    /\ data = LoadAccounts(NoEntry)
    /\ ret = ChainRet("new", "Ok", <<>>, "none", <<>>)
    /\ PollIdle
    /\ LibIdle
    /\ RuleIdle
    /\ FabricIdle
    /\ ArgIdle
    /\ RunIdle
    /\ HarnessIdle
    /\ JavaIdle
    /\ DlIdle
    /\ CondIdle
    /\ JvmIdle
    /\ CpIdle
    /\ AssetIdle
    /\ NativeIdle
    /\ InstIdle
    /\ ForgeIdle
    /\ EnsureIdle
    /\ TwoIdle
    /\ GuiIdle

\* complete_login: authenticate(..).await? first, then the account is
\* updated or pushed, made the active one, and the set is saved.
LoginCompleteLogin ==
    /\ \E env \in ChainEnvs :
       \E r \in ResultsOf(Chain("poll_for_token", env)),
          saveOk \in SavesOf(Chain("poll_for_token", env)) :
        LET c == Chain("poll_for_token", env)
            account == Account(r, TRUE)
            accs == IF HasAccount(data.accounts, r.id)
                    THEN UpdateTokens(data.accounts, r)
                    ELSE Append(data.accounts, account)
        IN IF ~c.ok
           THEN /\ ret' = ChainRet("complete_login", "Err", c.contacted, c.failed, <<>>)
                /\ UNCHANGED <<data, store>>
           ELSE /\ data' = [accounts |-> SetFlags(accs, r.id), active_uuid |-> r.id]
                /\ store' = Saved(data', saveOk)
                /\ ret' = IF saveOk
                          THEN ChainRet("complete_login", "Ok", c.contacted, "none", <<account>>)
                          ELSE ChainRet("complete_login", "Err", c.contacted, "save", <<>>)
    /\ AcctOnly

\* refresh_active: what it does to the manager and what it returns, for the
\* servers' answers env, the chain's result r and the keychain write's outcome.
RefreshOutcome(env, r, saveOk) ==
    LET c == Chain("refresh_token", env)
        d2 == [data EXCEPT !.accounts = UpdateTokens(data.accounts, r)]
    IN IF ~HasActiveAccount(data)
       THEN [data |-> data, store |-> store, result |-> "Err",
             contacted |-> <<>>, failed |-> "no_active"]
       ELSE IF ~c.ok
       THEN [data |-> data, store |-> store, result |-> "Err",
             contacted |-> c.contacted, failed |-> c.failed]
       ELSE [data |-> d2,
             store |-> IF saveOk THEN <<ToJson(d2)>> ELSE store,
             result |-> IF saveOk THEN "Ok" ELSE "Err",
             contacted |-> c.contacted,
             failed |-> IF saveOk THEN "none" ELSE "save"]

\* A get_launch_account that returns the refresh's error to its caller.
LaunchAccountResultPropagates(refreshResult, d) ==
    IF refreshResult = "Ok" /\ HasActiveAccount(d)
    THEN [result |-> "Ok", account |-> ActiveAccountOf(d)]
    ELSE [result |-> "Err", account |-> <<>>]

\* get_launch_account: the refresh's error is only logged (warn!); then
\* self.active_account().context("No active account. Please login first.")
LaunchAccountResult(refreshResult, d) ==
    IF HasActiveAccount(d)
    THEN [result |-> "Ok", account |-> ActiveAccountOf(d)]
    ELSE [result |-> "Err", account |-> <<>>]

LoginGetLaunchAccount ==
    /\ \E env \in ChainEnvs :
       \E r \in ResultsOf(Chain("refresh_token", env)),
          saveOk \in SavesOf(Chain("refresh_token", env)) :
        LET o == RefreshOutcome(env, r, saveOk)
            l == LaunchAccountResult(o.result, o.data)
        IN /\ data' = o.data
           /\ store' = o.store
           /\ ret' = ChainRet("get_launch_account", l.result, o.contacted, o.failed,
                              l.account)
    /\ AcctOnly

\* A new manager over the same store (the next run of the launcher).
LoginNewManager ==
    /\ data' = LoadAccounts(store)
    /\ ret' = ChainRet("new", "Ok", <<>>, "none", <<>>)
    /\ UNCHANGED store
    /\ AcctOnly

LoginNext ==
    \/ LoginCompleteLogin
    \/ LoginGetLaunchAccount
    \/ LoginNewManager

SpecLogin == LoginInit /\ [][LoginNext]_vars

RefreshSteps == {"refresh_token", "xbox_live", "user_hash", "xsts", "minecraft_auth", "profile"}

\* C13: a get_launch_account whose refresh chain fails at any step (token
\* refresh, Xbox Live, the user hash, XSTS, Minecraft auth, profile) returns
\* Ok with the active account exactly as it was stored before the call, old
\* mc_access_token and ms_refresh_token included, and leaves the in-memory
\* account set and the secret store as they were.
C13_FailedRefreshKeepsAccount ==
    [][(ret'.op = "get_launch_account" /\ ret'.failed \in RefreshSteps)
         => /\ ret'.result = "Ok"
            /\ ret'.account = ActiveAccountOf(data)
            /\ Len(ret'.account) = 1
            /\ data' = data
            /\ store' = store]_vars

C13_Witness ==
    /\ ret.op = "get_launch_account"
    /\ ret.failed = "xsts"
    /\ ret.result = "Ok"
    /\ Len(data.accounts) = 2
    /\ ret.account = ActiveAccountOf(data)
    /\ ret.account[1].mc_access_token = "t2"

LoginOrder == <<"poll_for_token", "xbox_live", "xsts", "minecraft_auth", "profile">>

\* The endpoint at which each failing step of the login chain stops.
LoginStopsAt ==
    [s \in {"poll_for_token", "xbox_live", "user_hash", "xsts", "minecraft_auth", "profile"} |->
        CASE s = "poll_for_token" -> 1
          [] s \in {"xbox_live", "user_hash"} -> 2
          [] s = "xsts" -> 3
          [] s = "minecraft_auth" -> 4
          [] s = "profile" -> 5]

\* C14: complete_login contacts token polling, Xbox Live, XSTS, Minecraft
\* auth and profile in that order; a step that fails (an empty xui list
\* counts as a failure after Xbox Live, before XSTS) is the last endpoint
\* contacted, complete_login returns Err, and the account set, the active
\* selection and the secret store stay as they were; only a chain whose
\* every step succeeded has contacted all five.
C14_LoginChainOrder ==
    [][ret'.op = "complete_login"
         => IF ret'.failed \in DOMAIN LoginStopsAt
            THEN /\ ret'.contacted = SubSeq(LoginOrder, 1, LoginStopsAt[ret'.failed])
                 /\ ret'.result = "Err"
                 /\ data' = data
                 /\ store' = store
            ELSE ret'.contacted = LoginOrder]_vars

C14_Witness ==
    /\ ret.op = "complete_login"
    /\ ret.failed = "user_hash"
    /\ ret.contacted = <<"poll_for_token", "xbox_live">>
    /\ ret.result = "Err"
    /\ HasActiveAccount(data)
    /\ store # NoEntry

\* ========================================================================
\* Required Java major (src/src/core/java/mod.rs, get_required_version;
\* src/src/core/launch/runner.rs, the EnsureJava stage)
\* ========================================================================

\* Longest version string tried.
MaxVersionLen == 5

\* Version strings are sequences of characters.
VersionChars == {"1", ".", "2", "0", "9", "8", "7", "6"}

VersionStrings == UNION {[1..n -> VersionChars] : n \in 0..MaxVersionLen}

\* pub const JAVA_REQUIREMENTS
JAVA_REQUIREMENTS ==
    << [major_version |-> 21, mc_version_pattern |-> <<"1", ".", "2", "1">>],
       [major_version |-> 17, mc_version_pattern |-> <<"1", ".", "2", "0">>],
       [major_version |-> 17, mc_version_pattern |-> <<"1", ".", "1", "9">>],
       [major_version |-> 17, mc_version_pattern |-> <<"1", ".", "1", "8">>],
       [major_version |-> 17, mc_version_pattern |-> <<"1", ".", "1", "7">>],
       [major_version |-> 8, mc_version_pattern |-> <<"1", ".", "1", "6">>] >>

\* A comparison of the whole string instead of its beginning.
StartsWithWhole(s, p) == s = p

\* str::starts_with
StartsWith(s, p) == Len(s) >= Len(p) /\ SubSeq(s, 1, Len(p)) = p

\* for req in JAVA_REQUIREMENTS { if starts_with { return } } 8
RECURSIVE ScanRequirements(_, _)
ScanRequirements(mc_version, i) ==
    IF i > Len(JAVA_REQUIREMENTS) THEN 8
    ELSE IF StartsWith(mc_version, JAVA_REQUIREMENTS[i].mc_version_pattern)
    THEN JAVA_REQUIREMENTS[i].major_version
    ELSE ScanRequirements(mc_version, i + 1)

get_required_version(mc_version) == ScanRequirements(mc_version, 1)

\* The instance versions launched here ("1." and two more characters), and
\* what their descriptors carry as java_version.major_version (None: absent).
InstanceVersions == {s \in [1..4 -> VersionChars] : s[1] = "1" /\ s[2] = "."}

DescriptorMajors == {None, 8, 17, 21}

TableInit ==
    /\ \E s \in VersionStrings :
        java = [pc |-> "table", version |-> s, descriptor |-> None,
                required |-> None, acquired |-> None]
    /\ AcctIdle
    /\ PollIdle
    /\ LibIdle
    /\ RuleIdle
    /\ FabricIdle
    /\ ArgIdle
    /\ RunIdle
    /\ HarnessIdle
    /\ DlIdle
    /\ CondIdle
    /\ JvmIdle
    /\ CpIdle
    /\ AssetIdle
    /\ NativeIdle
    /\ InstIdle
    /\ ForgeIdle
    /\ EnsureIdle
    /\ TwoIdle
    /\ GuiIdle

GetRequiredVersion ==
    /\ java.pc = "table"
    /\ java' = [java EXCEPT !.pc = "done", !.required = get_required_version(java.version)]
    /\ JavaOnly

TableNext == GetRequiredVersion

SpecJavaTable == TableInit /\ [][TableNext]_vars

JavaInit ==
    /\ \E s \in InstanceVersions, m \in DescriptorMajors :
        java = [pc |-> "required", version |-> s, descriptor |-> m,
                required |-> None, acquired |-> None]
    /\ AcctIdle
    /\ PollIdle
    /\ LibIdle
    /\ RuleIdle
    /\ FabricIdle
    /\ ArgIdle
    /\ RunIdle
    /\ HarnessIdle
    /\ DlIdle
    /\ CondIdle
    /\ JvmIdle
    /\ CpIdle
    /\ AssetIdle
    /\ NativeIdle
    /\ InstIdle
    /\ ForgeIdle
    /\ EnsureIdle
    /\ TwoIdle
    /\ GuiIdle

\* let required_java = JavaManager::get_required_version(&instance.info.version);
\* details.java_version is not read.
RequiredJava ==
    /\ java.pc = "required"
    /\ java' = [java EXCEPT !.pc = "ensure",
                            !.required = get_required_version(java.version)]
    /\ JavaOnly

\* java_manager.ensure_java(required_java, ..).await?
EnsureJavaRuntime ==
    /\ java.pc = "ensure"
    /\ \E ok \in BOOLEAN :
        java' = [java EXCEPT !.pc = IF ok THEN "launch" ELSE "failed",
                             !.acquired = IF ok THEN java.required ELSE None]
    /\ JavaOnly

JavaNext ==
    \/ RequiredJava
    \/ EnsureJavaRuntime

SpecJava == JavaInit /\ [][JavaNext]_vars

\* C16: once the pipeline has determined the Java major it requires and
\* acquires, a descriptor that carries java_version.major_version makes that
\* value the required (and acquired) major; the table decides only when the
\* descriptor has no java_version.
C16_DescriptorOverridesTable ==
    java.pc \in {"ensure", "launch", "failed"} =>
        /\ java.required = IF java.descriptor # None THEN java.descriptor
                           ELSE get_required_version(java.version)
        /\ java.pc = "launch" => java.acquired = java.required

\* p is a prefix of s.
IsPrefix(p, s) == \E n \in 0..Len(s) : p = SubSeq(s, 1, n)

\* The indices of the table patterns that are a prefix of the string.
PrefixMatches(s) ==
    {i \in 1..Len(JAVA_REQUIREMENTS) : IsPrefix(JAVA_REQUIREMENTS[i].mc_version_pattern, s)}

LongestPrefixMajor(s) ==
    IF PrefixMatches(s) = {} THEN 8
    ELSE LET i == CHOOSE i \in PrefixMatches(s) :
                    \A j \in PrefixMatches(s) :
                        Len(JAVA_REQUIREMENTS[i].mc_version_pattern)
                            >= Len(JAVA_REQUIREMENTS[j].mc_version_pattern)
         IN JAVA_REQUIREMENTS[i].major_version

\* C17: get_required_version returns the major of the longest table pattern
\* that is a prefix of the version string (1.21 gives 21; 1.20, 1.19, 1.18
\* and 1.17 give 17; 1.16 gives 8) and 8 when no pattern is a prefix; no
\* string has two patterns as prefixes, so the first match is the longest.
C17_FirstMatchIsLongestPrefix ==
    java.pc = "done" =>
        /\ java.required = LongestPrefixMajor(java.version)
        /\ Cardinality(PrefixMatches(java.version)) <= 1
        /\ IsPrefix(<<"1", ".", "2", "1">>, java.version) => java.required = 21
        /\ (\E p \in {<<"1", ".", "2", "0">>, <<"1", ".", "1", "9">>,
                      <<"1", ".", "1", "8">>, <<"1", ".", "1", "7">>} :
                IsPrefix(p, java.version))
              => java.required = 17
        /\ IsPrefix(<<"1", ".", "1", "6">>, java.version) => java.required = 8
        /\ PrefixMatches(java.version) = {} => java.required = 8

C17_Witness ==
    /\ java.pc = "done"
    /\ java.version = <<"1", ".", "2", "1", ".">>
    /\ java.required = 21

\* ========================================================================
\* One download of the pipeline, request by request
\* (library/mod.rs:174-195, asset/mod.rs:170-197, launch/mod.rs:170-194,
\*  forge/mod.rs:333-371)
\* ========================================================================

DownloadKinds == {"library", "asset", "client_jar", "forge_library"}

\* What a request can come back with: send() fails, or a status and a body.
\* The body of a 2xx response has the expected SHA-1 or not; the body of a
\* non-2xx response is the server's error page.
Responses ==
    {[status |-> "transport", body |-> "none"],
     [status |-> "2xx", body |-> "good"],
     [status |-> "2xx", body |-> "bad"],
     [status |-> "non2xx", body |-> "errbody"]}

NoResponse == [status |-> "none", body |-> "none"]

\* Only ForgeManager::download_library looks at response.status().
ChecksStatus(kind) == kind = "forge_library"

\* The check each kind runs on the file it has written: the library job
\* compares a non-empty sha1, the asset job a hash when size > 0, the client
\* jar and the Forge library are not compared with anything.
AfterWrite(kind, hashed, content) ==
    CASE kind = "library" -> VerifyOutcome(hashed, content)
      [] kind = "asset" -> AssetVerifyOutcome(hashed, content)
      [] OTHER -> "ok"

\* hashed: the artifact's sha1 is non-empty (library, client jar, Forge
\* library) or the asset's size is positive; disk: what is at the path when
\* the launch begins.
DlInit ==
    /\ \E k \in DownloadKinds, h \in BOOLEAN, c \in Contents :
        dl = [kind |-> k, hashed |-> h, disk |-> c, pc |-> "exists",
              response |-> NoResponse, cached |-> FALSE, result |-> "none"]
    /\ AcctIdle
    /\ PollIdle
    /\ LibIdle
    /\ RuleIdle
    /\ FabricIdle
    /\ ArgIdle
    /\ RunIdle
    /\ HarnessIdle
    /\ JavaIdle
    /\ CondIdle
    /\ JvmIdle
    /\ CpIdle
    /\ AssetIdle
    /\ NativeIdle
    /\ InstIdle
    /\ ForgeIdle
    /\ EnsureIdle
    /\ TwoIdle
    /\ GuiIdle

\* path.exists(): with skip_verification = true an existing library or asset
\* is not in the missing list; an existing jar or Forge library returns Ok.
DlExists ==
    /\ dl.pc = "exists"
    /\ dl' = IF dl.disk # "absent"
             THEN [dl EXCEPT !.pc = "done", !.cached = TRUE, !.result = "Ok"]
             ELSE [dl EXCEPT !.pc = "request"]
    /\ DlOnly

\* reqwest::get(url).await (with `?` or context); the Forge download bails
\* on a status that is not a success.
DlRequest ==
    /\ dl.pc = "request"
    /\ \E r \in Responses :
        dl' = IF r.status = "transport"
                  \/ (ChecksStatus(dl.kind) /\ r.status # "2xx")
              THEN [dl EXCEPT !.pc = "done", !.response = r, !.result = "Err"]
              ELSE [dl EXCEPT !.pc = "bytes", !.response = r]
    /\ DlOnly

\* response.bytes().await
DlBytes ==
    /\ dl.pc = "bytes"
    /\ \E ok \in BOOLEAN :
        dl' = IF ok THEN [dl EXCEPT !.pc = "write"]
              ELSE [dl EXCEPT !.pc = "done", !.result = "Err"]
    /\ DlOnly

\* std::fs::write(&dest, &bytes)
DlWrite ==
    /\ dl.pc = "write"
    /\ \E ok \in BOOLEAN :
        dl' = IF ok THEN [dl EXCEPT !.pc = "verify", !.disk = dl.response.body]
              ELSE [dl EXCEPT !.pc = "done", !.result = "Err"]
    /\ DlOnly

\* The check after the write, and the removal of a file that fails it.
DlVerify ==
    /\ dl.pc = "verify"
    /\ dl' = IF AfterWrite(dl.kind, dl.hashed, dl.disk) = "ok"
             THEN [dl EXCEPT !.pc = "done", !.result = "Ok"]
             ELSE [dl EXCEPT !.pc = "done", !.result = "Err", !.disk = "absent"]
    /\ DlOnly

DlNext ==
    \/ DlExists
    \/ DlRequest
    \/ DlBytes
    \/ DlWrite
    \/ DlVerify

SpecDownload == DlInit /\ [][DlNext]_vars

\* C18: a library, asset or client-jar download whose response status is
\* non-2xx has failed when it is over, and the response's body is not on disk,
\* also when the artifact's SHA-1 is empty or the asset's size is zero.
C18_Non2xxFails ==
    (dl.pc = "done" /\ dl.response.status = "non2xx"
       /\ dl.kind \in {"library", "asset", "client_jar"})
        => dl.result = "Err" /\ dl.disk = "absent"

\* C19: after the download of a client jar, or of a Forge library with a
\* non-empty SHA-1, either the file has the expected SHA-1 or it has been
\* deleted and the download failed; a client jar found on disk is used only
\* when its SHA-1 is the expected one.
C19_JarAndForgeVerified ==
    (dl.pc = "done" /\ (dl.kind = "client_jar" \/ (dl.kind = "forge_library" /\ dl.hashed)))
        => /\ dl.response.status # "none" =>
                \/ dl.disk = "good"
                \/ dl.disk = "absent" /\ dl.result = "Err"
           /\ (dl.kind = "client_jar" /\ dl.cached /\ dl.result = "Ok") => dl.disk = "good"

\* ========================================================================
\* The three rule consumers on one rule list: Library::should_include
\* (version/details.rs), Launcher::check_rules for JVM template arguments and
\* the Conditional branch of build_game_args (launch/mod.rs)
\* ========================================================================

\* Rule { action, os: Option<OsRule { name, arch }>, features: Option<..> };
\* features is whether the rule carries a features map.
FeatureRuleSet ==
    [action : RuleActions, name : OsNames \cup {"none"}, arch : Archs \cup {"none"},
     features : BOOLEAN]

FeatureRuleLists == UNION {[1..n -> FeatureRuleSet] : n \in 0..MaxRules}

\* One round of check_rules' loop: os_match compares os.name only (an absent
\* os or an absent name matches); allow without a match and disallow with a
\* match return false. Neither os.arch nor features is read.
CheckRule(r, host) ==
    LET os_match == r.name = "none" \/ r.name = host.os
    IN IF r.action = "allow" THEN os_match ELSE ~os_match

\* Launcher::check_rules: false at the first rule that refuses, else true.
CheckRules(rs, host) == \A i \in DOMAIN rs : CheckRule(rs[i], host)

CondInit ==
    /\ \E rs \in FeatureRuleLists, h \in Hosts :
        cond = [list |-> rs, host |-> h, pc |-> "input",
                library |-> FALSE, jvm |-> FALSE, game |-> FALSE]
    /\ AcctIdle
    /\ PollIdle
    /\ LibIdle
    /\ RuleIdle
    /\ FabricIdle
    /\ ArgIdle
    /\ RunIdle
    /\ HarnessIdle
    /\ JavaIdle
    /\ DlIdle
    /\ JvmIdle
    /\ CpIdle
    /\ AssetIdle
    /\ NativeIdle
    /\ InstIdle
    /\ ForgeIdle
    /\ EnsureIdle
    /\ TwoIdle
    /\ GuiIdle

\* A launch puts the list before each consumer: a library's rules
\* (should_include), a conditional JVM argument's (check_rules), a conditional
\* game argument's (dominated_by_features, then all is_allowed).
EvalConsumers ==
    /\ cond.pc = "input"
    /\ cond' = [cond EXCEPT
                  !.pc = "done",
                  !.library = ShouldInclude(cond.list, cond.host),
                  !.jvm = CheckRules(cond.list, cond.host),
                  !.game = ConditionalIncluded([rules |-> cond.list], cond.host)]
    /\ CondOnly

CondNext == EvalConsumers

SpecConsumers == CondInit /\ [][CondNext]_vars

AllFeatures(rs) == rs # <<>> /\ \A i \in DOMAIN rs : rs[i].features

NoFeatures(rs) == \A i \in DOMAIN rs : ~rs[i].features

\* C21: in each of the three consumers an empty rule list allows the item,
\* and a list in which every rule has a features condition denies it.
C21_EmptyAllowsFeaturesDeny ==
    cond.pc = "done" =>
        /\ cond.list = <<>> => (cond.library /\ cond.jvm /\ cond.game)
        /\ AllFeatures(cond.list) => (~cond.library /\ ~cond.jvm /\ ~cond.game)

\* C22: for every rule list without features, a conditional JVM argument is
\* included iff the library rule evaluation (os matching on name and arch)
\* allows the list.
C22_JvmRulesAsLibraryRules ==
    (cond.pc = "done" /\ NoFeatures(cond.list)) => cond.jvm = cond.library

\* ========================================================================
\* JVM arguments (src/src/core/launch/mod.rs, build_jvm_args and
\* replace_jvm_placeholders)
\* ========================================================================

\* Tokens of arguments.jvm: the entries of the vanilla template and one
\* placeholder the launcher substitutes.
JvmTemplateTokens ==
    { <<Lit("-cp")>>, <<Ph("classpath")>>,
      <<Lit("-Djava.library.path="), Ph("natives_directory")>>,
      <<Lit("-Dminecraft.launcher.brand="), Ph("launcher_name")>> }

\* Rules of conditional JVM arguments: an os rule and an arch rule.
JvmRules ==
    { [action |-> "allow", name |-> "osx", arch |-> "none", features |-> FALSE],
      [action |-> "allow", name |-> "none", arch |-> "x86", features |-> FALSE] }

JvmEntries ==
    {Simple(t) : t \in JvmTemplateTokens}
      \cup {Conditional(<<r>>, <<<<Lit("-Xss1M")>>>>) : r \in JvmRules}

JvmTemplates == UNION {[1..n -> JvmEntries] : n \in 0..MaxArgs}

\* instance.java: min_memory, max_memory ("" when not set), extra_args.
JavaSettings ==
    [min_memory : {"", "1G"}, max_memory : {"", "4G"},
     extra_args : {<<>>, << <<Lit("-XX:+UseG1GC")>> >>}]

\* replace_jvm_placeholders: its seven replacements.
JvmTable(ctx, host) ==
    [launcher_name |-> "gLauncher", launcher_version |-> "0.1.0",
     version_name |-> ctx.version, library_directory |-> "/data/libraries",
     classpath_separator |-> IF host.os = "windows" THEN ";" ELSE ":",
     natives_directory |-> "/inst/natives", version_type |-> ctx.version_type]

\* let min_mem = if min_memory.is_empty() { "512M" } else { min_memory }
MemoryOr(setting, default) == IF setting = "" THEN default ELSE setting

\* The vec! the argv starts with, and -XstartOnFirstThread on macOS.
FixedJvmArgs(settings, host) ==
    << <<Lit("-Xms"), Lit(MemoryOr(settings.min_memory, "512M"))>>,
       <<Lit("-Xmx"), Lit(MemoryOr(settings.max_memory, "2G"))>>,
       <<Lit("-Dminecraft.launcher.brand=gLauncher")>>,
       <<Lit("-Dminecraft.launcher.version=0.1.0")>> >>
      \o (IF host.os = "osx" THEN << <<Lit("-XstartOnFirstThread")>> >> ELSE <<>>)

\* The loop over arguments.jvm: a Simple entry, or a Conditional one that
\* check_rules allows, is substituted and pushed unless it is empty.
RECURSIVE TemplateJvmArgs(_, _, _)
TemplateJvmArgs(entries, ctx, host) ==
    IF entries = <<>> THEN <<>>
    ELSE LET e == Head(entries)
             processed == IF e.simple \/ CheckRules(e.rules, host)
                          THEN [i \in DOMAIN e.value |->
                                   ReplaceAll(e.value[i], JvmTable(ctx, host))]
                          ELSE <<>>
         IN SelectSeq(processed, LAMBDA p : ~IsEmptyArg(p))
              \o TemplateJvmArgs(Tail(entries), ctx, host)

\* build_jvm_args
BuildJvmArgs(template, settings, ctx, host) ==
    FixedJvmArgs(settings, host) \o TemplateJvmArgs(template, ctx, host) \o settings.extra_args

JvmInit ==
    /\ \E t \in JvmTemplates, j \in JavaSettings, c \in ArgContexts,
          h \in {[os |-> "linux", arch |-> "x64"], [os |-> "osx", arch |-> "arm64"],
                 [os |-> "windows", arch |-> "x86"]} :
        jargs = [pc |-> "input", template |-> t, java |-> j, ctx |-> c, host |-> h,
                 argv |-> <<>>]
    /\ AcctIdle
    /\ PollIdle
    /\ LibIdle
    /\ RuleIdle
    /\ FabricIdle
    /\ ArgIdle
    /\ RunIdle
    /\ HarnessIdle
    /\ JavaIdle
    /\ DlIdle
    /\ CondIdle
    /\ CpIdle
    /\ AssetIdle
    /\ NativeIdle
    /\ InstIdle
    /\ ForgeIdle
    /\ EnsureIdle
    /\ TwoIdle
    /\ GuiIdle

\* Launcher::launch calls build_jvm_args for the descriptor.
BuildJvm ==
    /\ jargs.pc = "input"
    /\ jargs' = [jargs EXCEPT !.pc = "built",
                    !.argv = BuildJvmArgs(jargs.template, jargs.java, jargs.ctx, jargs.host)]
    /\ JvmOnly

JvmNext == BuildJvm

SpecJvmArgs == JvmInit /\ [][JvmNext]_vars

InArgv(tok, argv) == \E i \in DOMAIN argv : argv[i] = tok

\* C23: the JVM argv built for a launch holds no token with an unresolved
\* ${name}, whatever the descriptor's JVM template, and holds -Xms512M and
\* -Xmx2G when the instance's memory settings are empty.
C23_JvmArgvResolved ==
    jargs.pc = "built" =>
        /\ \A i \in DOMAIN jargs.argv : ~ContainsPlaceholder(jargs.argv[i])
        /\ jargs.java.min_memory = "" => InArgv(<<Lit("-Xms"), Lit("512M")>>, jargs.argv)
        /\ jargs.java.max_memory = "" => InArgv(<<Lit("-Xmx"), Lit("2G")>>, jargs.argv)

\* ========================================================================
\* Classpath (src/src/core/library/mod.rs, build_classpath;
\* src/src/core/version/details.rs, Library::get_path)
\* ========================================================================

\* Longest library list given to build_classpath.
MaxCpLibs == 2

\* Libraries: downloads.artifact.path ("none": no artifact), the name split
\* at ':', and the rules (an absent rule list is the empty one here: both
\* include).
CpLibraries ==
    { [artifact |-> "a/a-1.jar", name |-> <<"org.a", "a", "1">>, rules |-> <<>>],
      [artifact |-> "b/b-1.jar", name |-> <<"org.b", "b", "1">>,
       rules |-> << [action |-> "allow", name |-> "osx", arch |-> "none"] >>],
      [artifact |-> "none", name |-> <<"org.c", "c", "1">>, rules |-> <<>>],
      [artifact |-> "none", name |-> <<"bare">>, rules |-> <<>>],
      [artifact |-> "d/d-1.jar", name |-> <<"org.d", "d", "1">>,
       rules |-> << [action |-> "allow", name |-> "none", arch |-> "none"],
                    [action |-> "disallow", name |-> "windows", arch |-> "none"] >>] }

CpLists == UNION {[1..n -> CpLibraries] : n \in 0..MaxCpLibs}

\* Library::get_path: the artifact's path, else a path made of the Maven
\* coordinates when the name has three parts, else None (the empty sequence).
GetPath(lib) ==
    IF lib.artifact # "none" THEN <<[from |-> "artifact", path |-> <<lib.artifact>>]>>
    ELSE IF Len(lib.name) >= 3
    THEN <<[from |-> "maven", path |-> SubSeq(lib.name, 1, 3)]>>
    ELSE <<>>

\* get_library_path: libraries_dir.join(path)
GetLibraryPath(lib) ==
    [i \in DOMAIN GetPath(lib) |-> [dir |-> "libraries_dir", file |-> GetPath(lib)[i]]]

\* A separator that is ':' on every host.
SeparatorColon(host) == ":"

\* let separator = if cfg!(windows) { ";" } else { ":" };
Separator(host) == IF host.os = "windows" THEN ";" ELSE ":"

\* paths.join(separator): the pieces of the joined string.
RECURSIVE Join(_, _)
Join(paths, sep) ==
    IF paths = <<>> THEN <<>>
    ELSE IF Len(paths) = 1 THEN paths
    ELSE <<Head(paths), sep>> \o Join(Tail(paths), sep)

\* filter(should_include).filter_map(get_library_path).collect()
RECURSIVE IncludedPaths(_, _)
IncludedPaths(libraries, host) ==
    IF libraries = <<>> THEN <<>>
    ELSE (IF ShouldInclude(Head(libraries).rules, host)
          THEN GetLibraryPath(Head(libraries)) ELSE <<>>)
           \o IncludedPaths(Tail(libraries), host)

\* build_classpath
BuildClasspathString(libraries, game_jar, host) ==
    Join(Append(IncludedPaths(libraries, host), game_jar), Separator(host))

CpInit ==
    /\ \E ls \in CpLists, h \in Hosts :
        cp = [pc |-> "input", libraries |-> ls, host |-> h,
              game_jar |-> [dir |-> "versions_dir", file |-> "1.20.4.jar"],
              classpath |-> <<>>]
    /\ AcctIdle
    /\ PollIdle
    /\ LibIdle
    /\ RuleIdle
    /\ FabricIdle
    /\ ArgIdle
    /\ RunIdle
    /\ HarnessIdle
    /\ JavaIdle
    /\ DlIdle
    /\ CondIdle
    /\ JvmIdle
    /\ AssetIdle
    /\ NativeIdle
    /\ InstIdle
    /\ ForgeIdle
    /\ EnsureIdle
    /\ TwoIdle
    /\ GuiIdle

\* launch_instance_async: lib_manager.build_classpath(&details.libraries, &game_jar)
BuildCp ==
    /\ cp.pc = "input"
    /\ cp' = [cp EXCEPT !.pc = "built",
                !.classpath = BuildClasspathString(cp.libraries, cp.game_jar, cp.host)]
    /\ CpOnly

CpNext == BuildCp

SpecClasspath == CpInit /\ [][CpNext]_vars

\* The positions of the rule-included libraries, and of those that have a path.
RuleIncluded(libraries, host) ==
    {i \in DOMAIN libraries : \A k \in DOMAIN libraries[i].rules :
        IsAllowed(libraries[i].rules[k], host)}

WithPath(libraries, S) == {i \in S : GetPath(libraries[i]) # <<>>}

\* The classpath is the paths of the libraries at the positions S, in list
\* order, then the game jar, with the host's separator between neighbours.
ClasspathOf(S) ==
    LET sep == IF cp.host.os = "windows" THEN ";" ELSE ":"
        n == Cardinality(S)
    IN /\ Len(cp.classpath) = 2 * n + 1
       /\ \A i \in S :
            LET pos == Cardinality({j \in S : j <= i})
            IN /\ cp.classpath[2 * pos - 1].dir = "libraries_dir"
               /\ <<cp.classpath[2 * pos - 1].file>> = GetPath(cp.libraries[i])
       /\ \A k \in 1..n : cp.classpath[2 * k] = sep
       /\ cp.classpath[2 * n + 1] = cp.game_jar

\* C27 (as stated): the classpath holds the paths of exactly the
\* rule-included libraries in input order, then the game JAR, joined by the
\* host separator.
C27_ClasspathExact ==
    cp.pc = "built" => ClasspathOf(RuleIncluded(cp.libraries, cp.host))

\* C27 (amended): the classpath holds the paths of exactly the rule-included
\* libraries that have a path (an artifact, or a name of at least
\* group:artifact:version), in input order, then the game JAR, joined by the
\* host separator.
C27_ClasspathOfLibrariesWithPath ==
    cp.pc = "built" =>
        ClasspathOf(WithPath(cp.libraries, RuleIncluded(cp.libraries, cp.host)))

\* Two libraries, one excluded on this host, on Windows.
C27_Witness ==
    /\ cp.pc = "built"
    /\ cp.host.os = "windows"
    /\ Len(cp.libraries) = 2
    /\ Cardinality(RuleIncluded(cp.libraries, cp.host)) = 1
    /\ Len(cp.classpath) = 3
    /\ cp.classpath[2] = ";"

\* ========================================================================
\* Asset operations (src/src/core/asset/mod.rs)
\* ========================================================================

\* AssetObject.size: zero, or positive.
AssetSizes == {"zero", "positive"}

\* An object's file: absent, with the index's hash, or with another one.
AssetFiles == {"absent", "good", "bad"}

\* verify_sha1(path, hash) of a file that exists: sha1_file(path) == hash
AssetVerifySha1(file) == file = "good"

\* The objects get_missing_assets reads the hash of.
MissingVerified(files, skip_verification) ==
    IF skip_verification THEN {} ELSE {o \in Assets : files[o] # "absent"}

\* get_missing_assets: absent, or (unless skipped) failing verify_sha1.
AssetGetMissing(files, skip_verification) ==
    {o \in Assets : \/ files[o] = "absent"
                    \/ ~skip_verification /\ ~AssetVerifySha1(files[o])}

\* The download_all job verifies only when size > 0.
JobVerifies(size) == size = "positive"

\* The file an asset job leaves: the verified bytes, or nothing after a
\* mismatch.
JobFile(verifies, bytes) ==
    IF verifies /\ ~AssetVerifySha1(bytes) THEN "absent" ELSE bytes

AssetInit ==
    /\ \E sz \in [Assets -> AssetSizes], fs \in [Assets -> AssetFiles] :
        am = [size |-> sz, files |-> fs, op |-> "none", missing |-> {},
              verified |-> {}, removed |-> {}, errors |-> {}]
    /\ AcctIdle
    /\ PollIdle
    /\ LibIdle
    /\ RuleIdle
    /\ FabricIdle
    /\ ArgIdle
    /\ RunIdle
    /\ HarnessIdle
    /\ JavaIdle
    /\ DlIdle
    /\ CondIdle
    /\ JvmIdle
    /\ CpIdle
    /\ NativeIdle
    /\ InstIdle
    /\ ForgeIdle
    /\ EnsureIdle
    /\ TwoIdle
    /\ GuiIdle

\* AssetManager::get_missing_assets(index, skip_verification)
GetMissingAssets ==
    /\ \E skip \in BOOLEAN :
        am' = [am EXCEPT !.op = "get_missing_assets",
                 !.missing = AssetGetMissing(am.files, skip),
                 !.verified = MissingVerified(am.files, skip),
                 !.removed = {}, !.errors = {}]
    /\ AssetOnly

\* AssetManager::download_asset(object): write, then verify_sha1 whatever
\* the size; a mismatch removes the file and is an error.
DownloadAsset ==
    /\ \E o \in Assets, bytes \in {"good", "bad"} :
        am' = [am EXCEPT !.op = "download_asset",
                 !.missing = {},
                 !.verified = {o},
                 !.files[o] = JobFile(TRUE, bytes),
                 !.removed = IF AssetVerifySha1(bytes) THEN {} ELSE {o},
                 !.errors = IF AssetVerifySha1(bytes) THEN {} ELSE {o}]
    /\ AssetOnly

\* AssetManager::download_all(index, skip_verification, ..): the missing
\* objects are fetched, each job writing and (size > 0) verifying its file.
AssetsDownloadAll ==
    /\ \E skip \in BOOLEAN, bytes \in [Assets -> {"good", "bad"}] :
        LET missing == AssetGetMissing(am.files, skip)
            checked == {o \in missing : JobVerifies(am.size[o])}
            failed == {o \in checked : ~AssetVerifySha1(bytes[o])}
        IN am' = [am EXCEPT !.op = "download_all",
                    !.missing = missing,
                    !.verified = MissingVerified(am.files, skip) \cup checked,
                    !.files = [o \in Assets |->
                                 IF o \in missing
                                 THEN JobFile(JobVerifies(am.size[o]), bytes[o])
                                 ELSE am.files[o]],
                    !.removed = failed,
                    !.errors = failed]
    /\ AssetOnly

AssetNext ==
    \/ GetMissingAssets
    \/ DownloadAsset
    \/ AssetsDownloadAll

SpecAssets == AssetInit /\ [][AssetNext]_vars

\* C28: no asset operation hashes a zero-size object: none reports one
\* missing whose file exists, removes its file, or fails downloading it.
C28_ZeroSizeNeverVerified ==
    \A o \in Assets :
        am.size[o] = "zero" =>
            /\ o \notin am.verified
            /\ o \notin am.removed
            /\ o \notin am.errors

\* ========================================================================
\* Natives (src/src/core/version/details.rs, get_native_classifier;
\* src/src/core/library/mod.rs, extract_natives)
\* ========================================================================

\* Strings are sequences of words and separators, so that str::replace and
\* str::contains work on their parts.
Coords == <<"org.lwjgl", ":", "lwjgl", ":", "3.3.1">>

ModernClassifiers ==
    { <<"natives", "-", "macos">>, <<"natives", "-", "macos", "-", "arm64">>,
      <<"natives", "-", "windows">>, <<"natives", "-", "windows", "-", "x86">>,
      <<"natives", "-", "windows", "-", "arm64">>,
      <<"natives", "-", "linux">>, <<"natives", "-", "linux", "-", "arm64">> }

\* natives maps of legacy libraries: OS key -> classifier template.
LegacyNatives ==
    { [windows |-> <<"natives", "-", "windows", "-", "${arch}">>,
       osx |-> <<"natives", "-", "osx">>,
       linux |-> <<"natives", "-", "linux">>],
      [windows |-> <<"natives", "-", "windows">>,
       osx |-> <<"natives", "-", "osx", "-", "${arch}">>,
       linux |-> <<"natives", "-", "linux", "-", "${arch}">>] }

\* downloads.classifiers of the legacy libraries.
LegacyClassifiers ==
    { <<"natives", "-", "windows", "-", "64">>, <<"natives", "-", "windows", "-", "32">>,
      <<"natives", "-", "windows">>, <<"natives", "-", "osx">>,
      <<"natives", "-", "osx", "-", "64">>, <<"natives", "-", "linux">>,
      <<"natives", "-", "linux", "-", "64">>, <<"natives", "-", "linux", "-", "32">> }

\* Libraries: a plain one, the modern natives libraries (the classifier is
\* the fourth part of the name), and the legacy ones (a natives map).
NativeLibraries ==
    {[name |-> Coords, natives |-> <<>>, classifiers |-> {}]}
    \cup {[name |-> Coords \o <<":">> \o c, natives |-> <<>>, classifiers |-> {}] :
            c \in ModernClassifiers}
    \cup {[name |-> Coords, natives |-> <<n>>, classifiers |-> LegacyClassifiers] :
            n \in LegacyNatives}

\* s.replace("${arch}", arch)
ReplaceArch(template, arch) ==
    [i \in DOMAIN template |-> IF template[i] = "${arch}" THEN arch ELSE template[i]]

\* Library::get_native_classifier: None (the empty sequence) without a
\* natives map; arch is "64" if cfg!(target_arch = "x86_64"), else "32".
get_native_classifier(lib, host) ==
    IF lib.natives = <<>> THEN <<>>
    ELSE <<ReplaceArch(lib.natives[1][host.os],
                       IF host.arch = "x64" THEN "64" ELSE "32")>>

\* extract_natives: native_suffix
NativeSuffix(host) ==
    IF host.os = "osx"
    THEN (IF host.arch = "arm64" THEN <<"natives", "-", "macos", "-", "arm64">>
          ELSE <<"natives", "-", "macos">>)
    ELSE IF host.os = "windows"
    THEN (IF host.arch = "x64" THEN <<"natives", "-", "windows">>
          ELSE <<"natives", "-", "windows", "-", "x86">>)
    ELSE <<"natives", "-", "linux">>

\* str::contains
Contains(s, t) ==
    \E i \in 1..(Len(s) - Len(t) + 1) : SubSeq(s, i, i + Len(t) - 1) = t

\* The methods of extract_natives that extract the library's archive.
ExtractedBy(lib, host, exists) ==
    {m \in {"legacy"} :
        /\ lib.natives # <<>>
        /\ get_native_classifier(lib, host)[1] \in lib.classifiers
        /\ exists}
    \cup {m \in {"modern"} :
        /\ Contains(lib.name, <<"natives">>)
        /\ Contains(lib.name, NativeSuffix(host))
        /\ exists}

NativeInit ==
    /\ \E l \in NativeLibraries, h \in Hosts, e \in BOOLEAN :
        nat = [pc |-> "input", lib |-> l, host |-> h, exists |-> e,
               classifier |-> <<>>, extracted |-> {}]
    /\ AcctIdle
    /\ PollIdle
    /\ LibIdle
    /\ RuleIdle
    /\ FabricIdle
    /\ ArgIdle
    /\ RunIdle
    /\ HarnessIdle
    /\ JavaIdle
    /\ DlIdle
    /\ CondIdle
    /\ JvmIdle
    /\ CpIdle
    /\ AssetIdle
    /\ InstIdle
    /\ ForgeIdle
    /\ EnsureIdle
    /\ TwoIdle
    /\ GuiIdle

\* lib.get_native_classifier()
GetNativeClassifier ==
    /\ nat.pc = "input"
    /\ nat' = [nat EXCEPT !.pc = "classified",
                 !.classifier = get_native_classifier(nat.lib, nat.host)]
    /\ NativeOnly

\* lib_manager.extract_natives(&[lib], natives_dir)
NativeExtract ==
    /\ nat.pc = "classified"
    /\ nat' = [nat EXCEPT !.pc = "extracted",
                 !.extracted = ExtractedBy(nat.lib, nat.host, nat.exists)]
    /\ NativeOnly

NativeNext ==
    \/ GetNativeClassifier
    \/ NativeExtract

SpecNatives == NativeInit /\ [][NativeNext]_vars

\* C29: a legacy template containing ${arch} gets 64 on every 64-bit host
\* (x64 and arm64) and 32 only on a 32-bit host.
C29_ArchIs64OnEvery64BitHost ==
    (/\ nat.pc # "input"
     /\ nat.lib.natives # <<>>
     /\ \E i \in DOMAIN nat.lib.natives[1][nat.host.os] :
            nat.lib.natives[1][nat.host.os][i] = "${arch}")
    => LET t == nat.lib.natives[1][nat.host.os]
           digits == IF nat.host.arch \in {"x64", "arm64"} THEN "64" ELSE "32"
       IN nat.classifier =
            <<[i \in DOMAIN t |-> IF t[i] = "${arch}" THEN digits ELSE t[i]]>>

\* The host classifier selection table for modern libraries (hosts outside
\* the table have no entry).
TableClassifier(host) ==
    IF host.os = "osx" /\ host.arch = "arm64" THEN <<"natives", "-", "macos", "-", "arm64">>
    ELSE IF host.os = "osx" /\ host.arch = "x64" THEN <<"natives", "-", "macos">>
    ELSE IF host.os = "windows" /\ host.arch = "x64" THEN <<"natives", "-", "windows">>
    ELSE IF host.os = "windows" /\ host.arch = "x86"
    THEN <<"natives", "-", "windows", "-", "x86">>
    ELSE IF host.os = "linux" THEN <<"natives", "-", "linux">>
    ELSE <<>>

\* C30: a modern library whose file exists is extracted iff the classifier
\* part of its name equals the host's classifier of the selection table; one
\* whose classifier only contains the host's is not extracted.
C30_ModernExtractedIffClassifierEqual ==
    (/\ nat.pc = "extracted"
     /\ nat.exists
     /\ nat.lib.natives = <<>>
     /\ Len(nat.lib.name) > Len(Coords)
     /\ TableClassifier(nat.host) # <<>>)
    => ("modern" \in nat.extracted
        <=> SubSeq(nat.lib.name, Len(Coords) + 2, Len(nat.lib.name))
              = TableClassifier(nat.host))

\* ========================================================================
\* Instances (src/src/core/instance/mod.rs; src/src/cli/mod.rs,
\* create_instance; src/src/core/fabric/mod.rs, FabricManager::install)
\* ========================================================================

InstNames == {"a", "b"}

\* ModLoader values the CLI and the dialogs offer.
InstLoaders == {"vanilla", "fabric", "forge"}

\* Option<String>: "none" is None.
LoaderVersions == {"none", "0.15.0"}

\* InstanceInfo { name, loader, loader_version } (the fields the operations
\* below distinguish).
InstRecords == [name : InstNames, loader : InstLoaders, loader_version : LoaderVersions]

\* A directory that does not exist, or no in-memory instance; an existing
\* one is the one-element sequence of its record.
NoDir == <<>>

\* create: bail if the directory exists; else write the record it was given.
CreateDisk(disk, r) == IF disk[r.name] # NoDir THEN disk ELSE [disk EXCEPT ![r.name] = <<r>>]

CreateResult(disk, r) == IF disk[r.name] # NoDir THEN "Err" ELSE "Ok"

\* save: std::fs::write to <instances>/<info.name>/instance.toml, which
\* fails when the directory is missing.
SaveDisk(disk, r) == IF disk[r.name] = NoDir THEN disk ELSE [disk EXCEPT ![r.name] = <<r>>]

SaveResult(disk, r) == IF disk[r.name] = NoDir THEN "Err" ELSE "Ok"

\* rename: Ok when the names are equal; bail when old is missing or new
\* exists; else std::fs::rename of the directory (instance.toml moves along,
\* unchanged).
RenameDisk(disk, old, new) ==
    IF old = new \/ disk[old] = NoDir \/ disk[new] # NoDir THEN disk
    ELSE [disk EXCEPT ![new] = disk[old], ![old] = NoDir]

RenameResult(disk, old, new) ==
    IF old = new THEN "Ok"
    ELSE IF disk[old] = NoDir \/ disk[new] # NoDir THEN "Err" ELSE "Ok"

\* A CLI create that passes a loader version for the loaders.
CliRecordWithVersion(name, loader) ==
    [name |-> name, loader |-> loader,
     loader_version |-> IF loader = "vanilla" THEN "none" ELSE "0.15.0"]

\* cli::create_instance: instance_manager.create(name, version, mod_loader, None)
CliRecord(name, loader) == [name |-> name, loader |-> loader, loader_version |-> "none"]

\* FabricManager::install: loader = Fabric, loader_version = Some(..)
FabricInstalled(r, loader_version) ==
    [r EXCEPT !.loader = "fabric", !.loader_version = loader_version]

InstInit ==
    /\ inst = [disk |-> [n \in InstNames |-> NoDir], op |-> "none",
               given |-> NoDir, mem |-> NoDir, result |-> "none"]
    /\ AcctIdle
    /\ PollIdle
    /\ LibIdle
    /\ RuleIdle
    /\ FabricIdle
    /\ ArgIdle
    /\ RunIdle
    /\ HarnessIdle
    /\ JavaIdle
    /\ DlIdle
    /\ CondIdle
    /\ JvmIdle
    /\ CpIdle
    /\ AssetIdle
    /\ NativeIdle
    /\ ForgeIdle
    /\ EnsureIdle
    /\ TwoIdle
    /\ GuiIdle

\* InstanceManager::create(name, version, loader, loader_version)
InstCreate ==
    /\ \E r \in InstRecords :
        inst' = [disk |-> CreateDisk(inst.disk, r), op |-> "create", given |-> <<r>>,
                 mem |-> IF CreateResult(inst.disk, r) = "Ok" THEN <<r>> ELSE NoDir,
                 result |-> CreateResult(inst.disk, r)]
    /\ InstOnly

\* cli::create_instance(name, version, loader)
InstCliCreate ==
    /\ \E n \in InstNames, l \in InstLoaders :
        LET r == CliRecord(n, l)
        IN inst' = [disk |-> CreateDisk(inst.disk, r), op |-> "cli_create",
                    given |-> <<[name |-> n, loader |-> l, loader_version |-> "none"]>>,
                    mem |-> IF CreateResult(inst.disk, r) = "Ok" THEN <<r>> ELSE NoDir,
                    result |-> CreateResult(inst.disk, r)]
    /\ InstOnly

\* InstanceManager::save(&instance)
InstSave ==
    /\ \E r \in InstRecords :
        inst' = [disk |-> SaveDisk(inst.disk, r), op |-> "save", given |-> <<r>>,
                 mem |-> <<r>>, result |-> SaveResult(inst.disk, r)]
    /\ InstOnly

\* InstanceManager::rename(old_name, new_name)
InstRename ==
    /\ \E old \in InstNames, new \in InstNames :
        inst' = [disk |-> RenameDisk(inst.disk, old, new), op |-> "rename",
                 given |-> NoDir, mem |-> NoDir,
                 result |-> RenameResult(inst.disk, old, new)]
    /\ InstOnly

\* InstanceManager::delete(name)
InstDelete ==
    /\ \E n \in InstNames :
        inst' = [disk |-> [inst.disk EXCEPT ![n] = NoDir], op |-> "delete",
                 given |-> NoDir, mem |-> NoDir,
                 result |-> IF inst.disk[n] = NoDir THEN "Err" ELSE "Ok"]
    /\ InstOnly

\* FabricManager::install(&mut instance, loader_version) on a loaded
\* instance: get_profile fails (the instance is untouched), or the loader
\* fields are set; nothing is written.
InstFabricInstall ==
    /\ \E n \in InstNames, ok \in BOOLEAN :
        /\ inst.disk[n] # NoDir
        /\ inst' = [inst EXCEPT !.op = "install", !.given = inst.disk[n],
                      !.mem = IF ok THEN <<FabricInstalled(inst.disk[n][1], "0.15.0")>>
                              ELSE inst.disk[n],
                      !.result = IF ok THEN "Ok" ELSE "Err"]
    /\ InstOnly

InstNext ==
    \/ InstCreate
    \/ InstCliCreate
    \/ InstSave
    \/ InstRename
    \/ InstDelete
    \/ InstFabricInstall

SpecInstances == InstInit /\ [][InstNext]_vars

\* loader = Vanilla iff loader_version is absent.
VanillaIffNoVersion(r) == (r.loader = "vanilla") <=> (r.loader_version = "none")

\* C31 (as stated): every record the instance operations write or leave in
\* memory has loader = Vanilla iff loader_version is absent.
C31_VanillaIffNoLoaderVersion ==
    /\ \A n \in InstNames : inst.disk[n] # NoDir => VanillaIffNoVersion(inst.disk[n][1])
    /\ (inst.op = "install" /\ inst.result = "Ok") => VanillaIffNoVersion(inst.mem[1])

\* C31 (amended): a record written by the CLI create command has no
\* loader_version whatever its loader; a successful FabricManager::install
\* leaves loader = Fabric with a loader_version; create and save write the
\* loader and loader_version they are given.
C31_LoaderVersionAsGiven ==
    /\ (inst.op = "cli_create" /\ inst.result = "Ok") =>
            /\ inst.disk[inst.given[1].name][1].loader = inst.given[1].loader
            /\ inst.disk[inst.given[1].name][1].loader_version = "none"
    /\ (inst.op = "install" /\ inst.result = "Ok") =>
            /\ inst.mem[1].loader = "fabric"
            /\ inst.mem[1].loader_version # "none"
    /\ (inst.op \in {"create", "save"} /\ inst.result = "Ok") =>
            inst.disk[inst.given[1].name] = inst.given

\* The CLI created a Fabric instance.
C31_Witness ==
    /\ inst.op = "cli_create"
    /\ inst.result = "Ok"
    /\ inst.given[1].loader = "fabric"
    /\ inst.disk[inst.given[1].name][1].loader = "fabric"

\* C39: every instance directory holds a record whose info.name is the
\* directory's name: load(n).info.name = n for every existing instance n.
C39_RecordNameIsDirectoryName ==
    \A n \in InstNames : inst.disk[n] # NoDir => inst.disk[n][1].name = n

\* ========================================================================
\* Forge overlay (src/src/core/forge/mod.rs, install, run_processors,
\* run_processor; src/src/core/launch/runner.rs, launch_instance_async)
\* ========================================================================

\* Most processors of an install profile.
MaxProcessors == 3

\* ForgeProcessor.sides: Option<Vec<String>>; <<>> is None.
ProcessorSides == {<<>>, <<{}>>, <<{"client"}>>, <<{"server"}>>, <<{"client", "server"}>>}

ProcessorLists == UNION {[1..n -> ProcessorSides] : n \in 0..MaxProcessors}

\* A loop that runs every processor.
RunsOnEverySide(sides) == TRUE

\* if let Some(ref sides) = processor.sides { if !sides.contains("client") { continue; } }
RunsOnClient(sides) == IF Len(sides) = 0 THEN TRUE ELSE "client" \in sides[1]

ForgeInit ==
    /\ \E ps \in ProcessorLists, jar \in {"absent", "present"} :
        fg = [pc |-> "install", processors |-> ps, i |-> 1, ran |-> <<>>,
              exits |-> <<>>, mc_jar |-> jar, saved |-> FALSE, merged |-> FALSE,
              result |-> "none"]
    /\ AcctIdle
    /\ PollIdle
    /\ LibIdle
    /\ RuleIdle
    /\ FabricIdle
    /\ ArgIdle
    /\ RunIdle
    /\ HarnessIdle
    /\ JavaIdle
    /\ DlIdle
    /\ CondIdle
    /\ JvmIdle
    /\ CpIdle
    /\ AssetIdle
    /\ NativeIdle
    /\ InstIdle
    /\ EnsureIdle
    /\ TwoIdle
    /\ GuiIdle

\* install, steps 1 to 5, and run_processors up to its loop: the installer
\* and the libraries are downloaded, the profile and the version document
\* read, the installer's data extracted; each ends the overlay on Err.
ForgePrepare ==
    /\ fg.pc = "install"
    /\ \E ok \in BOOLEAN :
        fg' = IF ok THEN [fg EXCEPT !.pc = "processors"]
              ELSE [fg EXCEPT !.pc = "done", !.result = "Err"]
    /\ ForgeOnly

\* One iteration of the loop of run_processors over a processor that is not
\* for the client: continue.
ForgeSkipProcessor ==
    /\ fg.pc = "processors"
    /\ fg.i <= Len(fg.processors)
    /\ ~RunsOnClient(fg.processors[fg.i])
    /\ fg' = [fg EXCEPT !.i = @ + 1]
    /\ ForgeOnly

\* One iteration over a client processor: run_processor(..)?. It fails
\* before the spawn (coordinates, manifest, spawn), or the process runs to
\* its end (Command::output) and a non-zero status bails.
ForgeRunProcessor ==
    /\ fg.pc = "processors"
    /\ fg.i <= Len(fg.processors)
    /\ RunsOnClient(fg.processors[fg.i])
    /\ \E out \in {"not started", "zero", "nonzero"} :
        fg' = IF out = "not started"
              THEN [fg EXCEPT !.pc = "done", !.result = "Err"]
              ELSE IF out = "zero"
              THEN [fg EXCEPT !.i = @ + 1, !.ran = Append(@, fg.i),
                              !.exits = Append(@, out)]
              ELSE [fg EXCEPT !.pc = "done", !.result = "Err",
                              !.ran = Append(@, fg.i), !.exits = Append(@, out)]
    /\ ForgeOnly

\* install, step 7: the version document is written to versions/<id>/<id>.json.
ForgeSaveVersionJson ==
    /\ fg.pc = "processors"
    /\ fg.i > Len(fg.processors)
    /\ \E ok \in BOOLEAN :
        fg' = IF ok THEN [fg EXCEPT !.pc = "merge", !.saved = TRUE]
              ELSE [fg EXCEPT !.pc = "done", !.result = "Err"]
    /\ ForgeOnly

\* launch_instance_async: the Forge libraries, main class and arguments are
\* merged into the descriptor.
ForgeMerge ==
    /\ fg.pc = "merge"
    /\ fg' = [fg EXCEPT !.pc = "client_jar", !.merged = TRUE]
    /\ ForgeOnly

\* launch_instance_async, after the library and asset stages:
\* launcher.ensure_version_jar(&details).await?
ForgeEnsureVersionJar ==
    /\ fg.pc = "client_jar"
    /\ \E ok \in BOOLEAN :
        fg' = IF fg.mc_jar = "present" \/ ok
              THEN [fg EXCEPT !.pc = "done", !.result = "Ok", !.mc_jar = "present"]
              ELSE [fg EXCEPT !.pc = "done", !.result = "Err"]
    /\ ForgeOnly

ForgeNext ==
    \/ ForgePrepare
    \/ ForgeSkipProcessor
    \/ ForgeRunProcessor
    \/ ForgeSaveVersionJson
    \/ ForgeMerge
    \/ ForgeEnsureVersionJar

SpecForge == ForgeInit /\ [][ForgeNext]_vars

\* The processors whose sides is absent or contains client.
ClientProcessors ==
    {j \in DOMAIN fg.processors :
        fg.processors[j] \in {<<>>, <<{"client"}>>, <<{"client", "server"}>>}}

RanSet == {fg.ran[k] : k \in DOMAIN fg.ran}

\* C32: the processors run are client processors, in profile order without
\* a gap, each after the previous one exited with zero; a non-zero exit is the
\* last run, fails the overlay and leaves the version document unsaved and
\* unmerged; a saved or merged document means every client processor ran
\* and exited with zero.
C32_ClientProcessorsInOrder ==
    /\ RanSet \subseteq ClientProcessors
    /\ \A k \in DOMAIN fg.ran :
        k < Len(fg.ran) => fg.ran[k] < fg.ran[k + 1] /\ fg.exits[k] = "zero"
    /\ \A j \in ClientProcessors :
        (\E k \in DOMAIN fg.ran : fg.ran[k] > j) => j \in RanSet
    /\ \A k \in DOMAIN fg.exits :
        fg.exits[k] = "nonzero" =>
            /\ k = Len(fg.ran)
            /\ fg.pc = "done"
            /\ fg.result = "Err"
            /\ ~fg.saved
            /\ ~fg.merged
    /\ (fg.saved \/ fg.merged) =>
            /\ RanSet = ClientProcessors
            /\ \A k \in DOMAIN fg.exits : fg.exits[k] = "zero"

\* A server-only processor was passed over, a client processor exited with
\* zero and the next one with non-zero, a further client processor remaining.
C32_Witness ==
    /\ Len(fg.processors) = 3
    /\ fg.processors[1] = <<>>
    /\ fg.processors[2] = <<{"client", "server"}>>
    /\ fg.processors[3] = <<{"client"}>>
    /\ fg.ran = <<1, 2>>
    /\ fg.exits = <<"zero", "nonzero">>
    /\ fg.result = "Err"

\* C38: a Forge processor runs only when the client JAR that
\* {MINECRAFT_JAR} resolves to is present.
C38_ProcessorsAfterClientJar ==
    fg.ran # <<>> => fg.mc_jar = "present"

\* ========================================================================
\* ensure_java (src/src/core/java/mod.rs)
\* ========================================================================

\* Most system locations probed, and calls of ensure_java followed.
MaxCandidates == 2
MaxEnsureCalls == 2

RequiredMajors == {8, 17, 21}

\* The quoted version of `java -version`, split at '.'; <<>> when the command
\* fails or prints no version line.
VersionOutputs ==
    {<<>>, <<"1", "8", "0_312">>, <<"17", "0", "1">>, <<"21", "0", "2">>, <<"abc">>}

\* A system location: whether the path exists, and what it reports.
Candidates == [exists : BOOLEAN, version : VersionOutputs]

CandidateLists == UNION {[1..n -> Candidates] : n \in 0..MaxCandidates}

\* major.parse::<u32>(): Ok(v) is <<v>>, Err is <<>>.
ParseU32(s) ==
    IF s = "1" THEN <<1>> ELSE IF s = "8" THEN <<8>> ELSE IF s = "17" THEN <<17>>
    ELSE IF s = "21" THEN <<21>> ELSE <<>>

\* A check that accepts whatever the executable reports.
check_java_version_any(version, required_major) == TRUE

\* check_java_version: "1.8.." for 8, else the first segment parsed.
check_java_version(version, required_major) ==
    IF version = <<>> THEN FALSE
    ELSE IF Len(version) >= 2 /\ version[1] = "1" /\ version[2] = "8" /\ required_major = 8
    THEN TRUE
    ELSE ParseU32(version[1]) = <<required_major>>

\* find_system_java: the first location that exists and passes the check
\* (<<>> is None).
find_system_java(candidates, major_version) ==
    LET ok == {i \in DOMAIN candidates :
                  candidates[i].exists
                  /\ check_java_version(candidates[i].version, major_version)}
    IN IF ok = {} THEN <<>> ELSE <<CHOOSE i \in ok : \A j \in ok : i <= j>>

\* The record of a call that took no step yet.
EnsureCall(managed) ==
    [managed_before |-> managed, probed |-> FALSE, downloaded |-> FALSE,
     exe_after |-> managed, result |-> "none", candidate |-> 0]

EnsureInit ==
    /\ \E r \in RequiredMajors, m \in BOOLEAN, cs \in CandidateLists :
        ej = [required |-> r, managed |-> m, candidates |-> cs, calls |-> <<>>]
    /\ AcctIdle
    /\ PollIdle
    /\ LibIdle
    /\ RuleIdle
    /\ FabricIdle
    /\ ArgIdle
    /\ RunIdle
    /\ HarnessIdle
    /\ JavaIdle
    /\ DlIdle
    /\ CondIdle
    /\ JvmIdle
    /\ CpIdle
    /\ AssetIdle
    /\ NativeIdle
    /\ InstIdle
    /\ ForgeIdle
    /\ TwoIdle
    /\ GuiIdle

\* ensure_java: is_installed returns the managed executable.
EnsureManaged ==
    /\ Len(ej.calls) < MaxEnsureCalls
    /\ ej.managed
    /\ ej' = [ej EXCEPT !.calls = Append(@, [EnsureCall(TRUE) EXCEPT !.result = "managed"])]
    /\ EnsureOnly

\* ensure_java: nothing managed, find_system_java returns Some.
EnsureSystem ==
    /\ Len(ej.calls) < MaxEnsureCalls
    /\ ~ej.managed
    /\ find_system_java(ej.candidates, ej.required) # <<>>
    /\ ej' = [ej EXCEPT !.calls = Append(@,
                [EnsureCall(FALSE) EXCEPT !.probed = TRUE, !.result = "system",
                    !.candidate = find_system_java(ej.candidates, ej.required)[1]])]
    /\ EnsureOnly

\* ensure_java: nothing managed, nothing on the system: download(..)?, then
\* the executable is looked for. A download that fails may have extracted
\* the executable already.
EnsureDownload ==
    /\ Len(ej.calls) < MaxEnsureCalls
    /\ ~ej.managed
    /\ find_system_java(ej.candidates, ej.required) = <<>>
    /\ \E out \in {"Err", "Err after extracting", "installed", "no executable"} :
        ej' = [ej EXCEPT
                 !.managed = out \in {"installed", "Err after extracting"},
                 !.calls = Append(@,
                    [EnsureCall(FALSE) EXCEPT !.probed = TRUE, !.downloaded = TRUE,
                        !.exe_after = out \in {"installed", "Err after extracting"},
                        !.result = IF out = "installed" THEN "download" ELSE "Err"])]
    /\ EnsureOnly

EnsureNext ==
    \/ EnsureManaged
    \/ EnsureSystem
    \/ EnsureDownload

SpecEnsureJava == EnsureInit /\ [][EnsureNext]_vars

\* The major a version output reports: the second segment of 1.x, else the
\* first; 0 when it is no number.
ReportedMajor(version) ==
    LET seg == IF version = <<>> THEN "none"
               ELSE IF version[1] = "1" /\ Len(version) >= 2 THEN version[2]
               ELSE version[1]
    IN IF seg = "8" THEN 8 ELSE IF seg = "17" THEN 17 ELSE IF seg = "21" THEN 21 ELSE 0

Acceptable ==
    {i \in DOMAIN ej.candidates :
        ej.candidates[i].exists /\ ReportedMajor(ej.candidates[i].version) = ej.required}

\* C34: a call with a managed executable returns it without probing or
\* downloading; the system is probed only without a managed one and a
\* candidate is returned only if it exists and reports the required major;
\* the download happens exactly when both fail, its call is Err when the
\* executable is absent afterwards, and the call after a successful download
\* returns the managed executable without a download.
C34_ManagedSystemDownload ==
    \A k \in DOMAIN ej.calls :
        LET c == ej.calls[k]
        IN /\ c.managed_before =>
                c.result = "managed" /\ ~c.probed /\ ~c.downloaded
           /\ c.probed => ~c.managed_before
           /\ c.result = "system" =>
                c.candidate \in Acceptable /\ ~c.downloaded
           /\ c.downloaded <=> (~c.managed_before /\ Acceptable = {})
           /\ (c.downloaded /\ ~c.exe_after) => c.result = "Err"
           /\ (k > 1 /\ ej.calls[k - 1].result = "download") =>
                c.result = "managed" /\ ~c.downloaded

\* A download that installed the runtime, then a call that found it.
C34_Witness ==
    /\ Len(ej.calls) = 2
    /\ ej.calls[1].result = "download"
    /\ ej.calls[2].result = "managed"
    /\ \E i \in DOMAIN ej.candidates : ej.candidates[i].exists

\* ========================================================================
\* Two account managers over one secret store
\* (src/src/core/auth/manager.rs; src/src/gui/app.rs, continue_login,
\* show_accounts; src/src/cli/mod.rs, auth_login)
\* ========================================================================

\* The GUI's manager, and the one a login thread or a CLI process creates.
Managers == {"gui", "other"}

TwoInit ==
    /\ tm = [store |-> NoEntry, data |-> [m \in Managers |-> LoadAccounts(NoEntry)],
             effects |-> {}, failed |-> FALSE]
    /\ AcctIdle
    /\ PollIdle
    /\ LibIdle
    /\ RuleIdle
    /\ FabricIdle
    /\ ArgIdle
    /\ RunIdle
    /\ HarnessIdle
    /\ JavaIdle
    /\ DlIdle
    /\ CondIdle
    /\ JvmIdle
    /\ CpIdle
    /\ AssetIdle
    /\ NativeIdle
    /\ InstIdle
    /\ ForgeIdle
    /\ EnsureIdle
    /\ GuiIdle

\* AccountManager::new() / AccountManager::default(): the manager loads the
\* store (the GUI does so again on LoginSuccess).
TwoNew(m) ==
    /\ tm' = [tm EXCEPT !.data[m] = LoadAccounts(tm.store)]
    /\ TwoOnly

\* complete_login of manager m.
TwoCompleteLogin(m) ==
    /\ \E id \in Ids, saveOk \in BOOLEAN :
        LET r == [id |-> id, ms_refresh_token |-> "t1", mc_access_token |-> "t1"]
            accs == IF HasAccount(tm.data[m].accounts, id)
                    THEN UpdateTokens(tm.data[m].accounts, r)
                    ELSE Append(tm.data[m].accounts, Account(r, TRUE))
            d == [accounts |-> SetFlags(accs, id), active_uuid |-> id]
        IN tm' = [tm EXCEPT !.data[m] = d,
                     !.store = IF saveOk THEN <<ToJson(d)>> ELSE @,
                     !.effects = IF saveOk THEN @ \cup {id} ELSE @,
                     !.failed = @ \/ ~saveOk]
    /\ TwoOnly

\* remove_account of manager m, for an account it knows.
TwoRemoveAccount(m) ==
    /\ \E uuid \in Ids, saveOk \in BOOLEAN :
        /\ HasAccount(tm.data[m].accounts, uuid)
        /\ LET kept == Retain(tm.data[m].accounts, uuid)
               first == IF kept = <<>> THEN None ELSE kept[1].id
               d == IF tm.data[m].active_uuid = uuid
                    THEN [accounts |-> IF first = None THEN kept ELSE SetFlags(kept, first),
                          active_uuid |-> first]
                    ELSE [tm.data[m] EXCEPT !.accounts = kept]
           IN tm' = [tm EXCEPT !.data[m] = d,
                        !.store = IF saveOk THEN <<ToJson(d)>> ELSE @,
                        !.effects = IF saveOk THEN @ \ {uuid} ELSE @,
                        !.failed = @ \/ ~saveOk]
    /\ TwoOnly

TwoNext ==
    \/ \E m \in Managers : TwoNew(m)
    \/ \E m \in Managers : TwoCompleteLogin(m)
    \/ \E m \in Managers : TwoRemoveAccount(m)

SpecTwoManagers == TwoInit /\ [][TwoNext]_vars

\* C37: with every keychain write succeeding, the store holds the effect of
\* every operation of both managers: exactly the accounts that were logged
\* in and not removed since.
C37_NoLostUpdate ==
    ~tm.failed =>
        {LoadAccounts(tm.store).accounts[i].id :
            i \in DOMAIN LoadAccounts(tm.store).accounts} = tm.effects

\* ========================================================================
\* The graphical shell's background tasks (src/src/gui/app.rs)
\* ========================================================================

\* Channels created during one run of the shell, the initial one included.
MaxTasks == 4

\* What the thread of each kind of task can send last.
TerminalResults(kind) ==
    CASE kind = "update"   -> {"UpdateCheck"}
      [] kind = "launch"   -> {"LaunchSuccess", "Error"}
      [] kind = "login"    -> {"DeviceCode", "LoginError"}
      [] kind = "continue" -> {"LoginSuccess", "LoginError"}
      [] kind = "versions" -> {"VersionManifest", "Error"}
      [] kind = "loader"   -> {"LoaderVersions", "NoLoaderVersions", "Error"}

\* let (tx, rx) = mpsc::channel(); self.async_receiver = Some(rx);
\* std::thread::spawn(...)
Spawn(g, kind) ==
    [g EXCEPT !.chans = Append(@, [kind |-> kind, queue |-> <<>>, done |-> FALSE,
                                   progress |-> FALSE]),
              !.rx = Len(g.chans) + 1]

GuiStart == [is_loading |-> FALSE, login_state |-> "Idle", version_manifest |-> FALSE,
             loading_loader_versions |-> FALSE, loader_versions |-> FALSE,
             chans |-> <<[kind |-> "update", queue |-> <<>>, done |-> FALSE,
                          progress |-> FALSE]>>,
             rx |-> 1, received |-> {}]

GuiInit ==
    /\ gui = GuiStart
    /\ AcctIdle
    /\ PollIdle
    /\ LibIdle
    /\ RuleIdle
    /\ FabricIdle
    /\ ArgIdle
    /\ RunIdle
    /\ HarnessIdle
    /\ JavaIdle
    /\ DlIdle
    /\ CondIdle
    /\ JvmIdle
    /\ CpIdle
    /\ AssetIdle
    /\ NativeIdle
    /\ InstIdle
    /\ ForgeIdle
    /\ EnsureIdle
    /\ TwoIdle

\* The Launch button is enabled only while nothing is loading.
start_launch ==
    /\ gui # <<>>
    /\ Len(gui.chans) < MaxTasks
    /\ ~gui.is_loading
    /\ gui' = Spawn([gui EXCEPT !.is_loading = TRUE], "launch")
    /\ GuiOnly

\* "Login with Microsoft" is shown whenever the login state is Idle.
start_login ==
    /\ gui # <<>>
    /\ Len(gui.chans) < MaxTasks
    /\ gui.login_state = "Idle"
    /\ gui' = Spawn([gui EXCEPT !.login_state = "WaitingForCode"], "login")
    /\ GuiOnly

continue_login ==
    /\ gui # <<>>
    /\ Len(gui.chans) < MaxTasks
    /\ gui.login_state = "ShowingCode"
    /\ gui' = Spawn([gui EXCEPT !.login_state = "Authenticating"], "continue")
    /\ GuiOnly

\* The Cancel button of the device-code view.
cancel_login ==
    /\ gui # <<>>
    /\ gui.login_state = "ShowingCode"
    /\ gui' = [gui EXCEPT !.login_state = "Idle", !.rx = None]
    /\ GuiOnly

\* The New button fetches the manifest while there is none.
fetch_versions ==
    /\ gui # <<>>
    /\ Len(gui.chans) < MaxTasks
    /\ ~gui.version_manifest
    /\ gui' = Spawn([gui EXCEPT !.is_loading = TRUE], "versions")
    /\ GuiOnly

\* The create dialog fetches loader versions while it has none and no fetch
\* is marked as running.
fetch_loader_versions ==
    /\ gui # <<>>
    /\ Len(gui.chans) < MaxTasks
    /\ ~gui.loader_versions
    /\ ~gui.loading_loader_versions
    /\ gui' = Spawn([gui EXCEPT !.loading_loader_versions = TRUE], "loader")
    /\ GuiOnly

\* tx.send of task t's thread: a message reaches the queue only while the
\* receiver of its channel is alive, and the result of send is ignored.
Send(g, t, msg, last) ==
    [g EXCEPT !.chans[t] = [@ EXCEPT !.queue = IF g.rx = t THEN Append(@, msg) ELSE @,
                                     !.done = last,
                                     !.progress = TRUE]]

\* The launch thread reports progress before its terminal result.
TaskProgress(t) ==
    /\ gui # <<>>
    /\ t <= Len(gui.chans)
    /\ gui.chans[t].kind = "launch"
    /\ ~gui.chans[t].done
    /\ ~gui.chans[t].progress
    /\ gui' = Send(gui, t, "LaunchProgress", FALSE)
    /\ GuiOnly

\* The thread of task t sends its terminal result and ends.
TaskFinish(t) ==
    /\ gui # <<>>
    /\ t <= Len(gui.chans)
    /\ ~gui.chans[t].done
    /\ \E msg \in TerminalResults(gui.chans[t].kind) : gui' = Send(gui, t, msg, TRUE)
    /\ GuiOnly

\* The match of check_async_results on one received message.
Handle(g, t, msg) ==
    CASE msg = "DeviceCode" -> [g EXCEPT !.login_state = "ShowingCode"]
      [] msg \in {"LoginSuccess", "LoginError"} ->
            [g EXCEPT !.login_state = "Idle", !.rx = None]
      [] msg = "VersionManifest" ->
            [g EXCEPT !.version_manifest = TRUE, !.is_loading = FALSE, !.rx = None]
      [] msg = "Error" ->
            [g EXCEPT !.is_loading = FALSE, !.rx = None,
                      !.received = IF g.chans[t].kind = "launch" THEN @ \cup {t} ELSE @]
      [] msg = "LaunchSuccess" ->
            [g EXCEPT !.is_loading = FALSE, !.rx = None, !.received = @ \cup {t}]
      [] msg = "LoaderVersions" ->
            [g EXCEPT !.loader_versions = TRUE, !.loading_loader_versions = FALSE]
      [] msg = "NoLoaderVersions" ->
            [g EXCEPT !.loading_loader_versions = FALSE]
      [] OTHER -> g

\* One frame's check_async_results with a message waiting: try_recv takes
\* the head of the current receiver's queue.
check_async_results ==
    /\ gui # <<>>
    /\ gui.rx # None
    /\ gui.chans[gui.rx].queue # <<>>
    /\ LET t == gui.rx
           msg == Head(gui.chans[t].queue)
       IN gui' = Handle([gui EXCEPT !.chans[t].queue = Tail(@)], t, msg)
    /\ GuiOnly

GuiNext ==
    \/ start_launch
    \/ start_login
    \/ continue_login
    \/ cancel_login
    \/ fetch_versions
    \/ fetch_loader_versions
    \/ \E t \in 1..MaxTasks : TaskProgress(t)
    \/ \E t \in 1..MaxTasks : TaskFinish(t)
    \/ check_async_results

\* Every spawned thread runs to its end, and update() runs
\* check_async_results on every frame; the user's clicks are not forced.
SpecGui ==
    /\ GuiInit
    /\ [][GuiNext]_vars
    /\ WF_vars(check_async_results)
    /\ \A t \in 1..MaxTasks : WF_vars(TaskProgress(t)) /\ WF_vars(TaskFinish(t))

\* C40: every launch that start_launch started eventually has its terminal
\* result handled by check_async_results, which leaves is_loading false,
\* whatever other tasks the user starts meanwhile.  A behaviour that refutes
\* it ends idle: once the launch's receiver has been replaced, no thread and
\* no frame of the shell has anything left to do with the launch's result.
C40_LaunchResultReceived ==
    \A t \in 1..MaxTasks :
        (gui # <<>> /\ t <= Len(gui.chans) /\ gui.chans[t].kind = "launch")
            ~> (gui # <<>> /\ t \in gui.received /\ ~gui.is_loading)

====
